---------------------------- MODULE Spec2Model ----------------------------
(***************************************************************************)
(* Model of the ServerlessAmplifyPlugin (src/index.js): the after-deploy   *)
(* pipeline  listStackResources -> describeStackResources ->               *)
(* writeConfigurationFiles, with the AWS control plane, the compiled       *)
(* template and the file system as environment.                            *)
(*                                                                         *)
(* JavaScript strings are sequences of tokens, the separators '/', ':' and *)
(* '_' being tokens of their own, so that String.split is computed.        *)
(***************************************************************************)
EXTENDS Integers, Sequences, FiniteSets, TLC

(***************************************************************************)
(* Bounds of the model.                                                    *)
(***************************************************************************)
\* largest number of items the listing service puts in one page
MaxPageSize == 2
\* largest number of directives in custom.amplify
MaxDirectives == 2

(***************************************************************************)
(* Strings.                                                                *)
(***************************************************************************)
\* the value of a missing property or array element
Undefined == <<"undefined">>

RECURSIVE SplitFrom(_, _, _, _)
\* segments of s[i..] given the segment cur collected so far
SplitFrom(s, sep, i, cur) ==
    IF i > Len(s) THEN <<cur>>
    ELSE IF s[i] = sep THEN <<cur>> \o SplitFrom(s, sep, i + 1, <<>>)
    ELSE SplitFrom(s, sep, i + 1, Append(cur, s[i]))

\* String.prototype.split(sep)
Split(s, sep) == SplitFrom(s, sep, 1, <<>>)

\* s.split(sep)[k], k counted from 0 as in the source
SplitAt(s, sep, k) ==
    LET parts == Split(s, sep)
    IN  IF k + 1 <= Len(parts) THEN parts[k + 1] ELSE Undefined

(***************************************************************************)
(* Sequence helpers: Array.prototype.filter / find.                        *)
(***************************************************************************)
\* the elements of an array
Range(q) == { q[k] : k \in 1..Len(q) }

RECURSIVE SelectFrom(_, _, _)
SelectFrom(s, passing, i) ==
    IF i > Len(s) THEN <<>>
    ELSE IF s[i] \in passing THEN <<s[i]>> \o SelectFrom(s, passing, i + 1)
    ELSE SelectFrom(s, passing, i + 1)

\* resources.filter(test), passing being the elements the test accepts
Filter(s, passing) == SelectFrom(s, passing, 1)

\* an array element that does not exist (find without match, [0] of [])
NotFound == [ResourceType |-> "undefined"]

\* an object without properties
Empty == [k \in {} |-> 0]

\* array[0]
First(s) == IF Len(s) > 0 THEN s[1] ELSE NotFound

\* resources.find(test), passing being the elements the test accepts
Find(s, passing) == First(Filter(s, passing))

IsDefined(r) == r # NotFound


(***************************************************************************)
(* Resource summaries, as CloudFormation lists them.                       *)
(***************************************************************************)
StackType        == "AWS::CloudFormation::Stack"
GraphQLApiType   == "AWS::AppSync::GraphQLApi"
IdentityPoolType == "AWS::Cognito::IdentityPool"
UserPoolType     == "AWS::Cognito::UserPool"
ClientType       == "AWS::Cognito::UserPoolClient"
BucketType       == "AWS::S3::Bucket"
RestApiType      == "AWS::ApiGateway::RestApi"
FunctionType     == "AWS::Lambda::Function"

\* one item of StackResourceSummaries
Summary(type, logicalId, physicalId) ==
    [ResourceType |-> type, LogicalResourceId |-> logicalId,
     PhysicalResourceId |-> physicalId]

\* the entry a parent stack lists for the nested stack called name
StackEntry(name) ==
    Summary(StackType, name,
            <<"arn:aws:cloudformation:us-east-1:1:stack", "/", name, "/", "guid">>)

Api1    == Summary(GraphQLApiType, "GraphQlApi", <<"arn:aws:appsync:apis", "/", "api1">>)
Api2    == Summary(GraphQLApiType, "OtherApi", <<"arn:aws:appsync:apis", "/", "api2">>)
Idp1    == Summary(IdentityPoolType, "IdentityPool", <<"us-east-1", ":", "idp1">>)
Idp2    == Summary(IdentityPoolType, "WebIdentityPool", <<"eu-west-1", ":", "idp2">>)
Idp3    == Summary(IdentityPoolType, "GuestIdentityPool", <<"ap-south-1", ":", "idp3">>)
Idp4    == Summary(IdentityPoolType, "KioskIdentityPool", <<"us-west-2", ":", "idp4">>)
Up1     == Summary(UserPoolType, "UserPool", <<"us-east-1", "_", "up1">>)
Up2     == Summary(UserPoolType, "AdminPool", <<"us-west-2", "_", "up2">>)
\* a user pool of a nested stack with the logical id of Up1
Up1Twin == Summary(UserPoolType, "UserPool", <<"us-east-1", "_", "up9">>)
Cl1     == Summary(ClientType, "WebClient", <<"client1">>)
Cl2     == Summary(ClientType, "AdminClient", <<"client2">>)
\* a client whose template entry refers to a pool that is not deployed
ClLost  == Summary(ClientType, "LostClient", <<"client3">>)
\* a client that has no entry in the compiled template
ClStray == Summary(ClientType, "StrayClient", <<"client4">>)
BktDeploy   == Summary(BucketType, "ServerlessDeploymentBucket", <<"deploy-bkt">>)
BktUploads  == Summary(BucketType, "Uploads", <<"uploads-bkt">>)
BktMedia    == Summary(BucketType, "Media", <<"media-bkt">>)
\* a bucket whose logical id is the word the README reserves
BktDisabled == Summary(BucketType, "disabled", <<"disabled-bkt">>)
Rest1   == Summary(RestApiType, "ApiGatewayRestApi", <<"rest1">>)
Rest2   == Summary(RestApiType, "AdminRestApi", <<"rest2">>)
\* a REST API of a nested stack with the logical id of Rest1
Rest1Twin == Summary(RestApiType, "ApiGatewayRestApi", <<"rest9">>)
Fn1     == Summary(FunctionType, "HelloLambdaFunction", <<"fn1">>)

(***************************************************************************)
(* The deployed stacks: the name of the root stack and, for each world,    *)
(* the items of every stack in the order CloudFormation lists them.  Each  *)
(* physical resource is in exactly one stack.                              *)
(***************************************************************************)
RootStack == <<"svc-dev">>
StackA    == <<"A">>
StackB    == <<"B">>

WorldItems ==
    { \* a single stack holding one resource of every kind
      (RootStack :> <<Up1, Cl1, Idp1, Api1, BktUploads, Rest1, Fn1>>),
      \* an empty stack
      (RootStack :> <<>>),
      \* one nested stack; the client is listed before its pool
      (RootStack :> <<Cl1, StackEntry("A"), BktDeploy>>) @@ (StackA :> <<Up1, Api1>>),
      \* a nested stack that itself contains a nested stack
      (RootStack :> <<StackEntry("A"), Up1>>) @@ (StackA :> <<StackEntry("B"), Cl1>>)
          @@ (StackB :> <<Idp1>>),
      \* two sibling nested stacks, two pools and two clients
      (RootStack :> <<StackEntry("A"), StackEntry("B")>>) @@ (StackA :> <<Up1, Cl2>>)
          @@ (StackB :> <<Up2, Cl1>>),
      \* a client whose pool is not deployed, next to one that resolves
      (RootStack :> <<Up1, ClLost, Cl1, BktUploads>>),
      \* a client without template entry
      (RootStack :> <<Idp1, ClStray, BktUploads>>),
      \* a nested stack whose user pool has the logical id of the root's
      (RootStack :> <<StackEntry("A"), Up1>>) @@ (StackA :> <<Up1Twin, Cl1>>),
      \* a nested stack entry whose stack cannot be listed
      (RootStack :> <<BktUploads, StackEntry("Gone")>>)
    }

\* serverless.service.provider.compiledCloudFormationTemplate.Resources,
\* reduced to Properties.UserPoolId.Ref of the user-pool clients
CompiledTemplate ==
    ("WebClient" :> "UserPool") @@ ("AdminClient" :> "AdminPool")
        @@ ("LostClient" :> "MissingPool")

RECURSIVE Chunk(_, _)
\* the pages in which the service serves items, size items a page; an
\* empty listing is served as one empty page
Chunk(items, size) ==
    IF Len(items) <= size THEN <<items>>
    ELSE <<SubSeq(items, 1, size)>> \o Chunk(SubSeq(items, size + 1, Len(items)), size)

Paged(items, size) == [st \in DOMAIN items |-> Chunk(items[st], size)]

Worlds == { Paged(items, size) : items \in WorldItems, size \in 1..MaxPageSize }

(***************************************************************************)
(* The custom.amplify directives of the pipeline specification.            *)
(***************************************************************************)
Directives ==
    { [type |-> "native", filename |-> <<"awsconfiguration", ".", "json">>],
      [type |-> "Native", filename |-> <<"aws", ".", "json">>, appClient |-> "WebClient"],
      [type |-> "javascript", filename |-> <<"aws-exports", ".", "js">>,
       appClient |-> "NoSuchClient"],
      [type |-> "typescript", filename |-> <<"aws-exports", ".", "ts">>,
       s3bucket |-> "disabled"],
      [type |-> "schema.json", filename |-> <<"schema", ".", "json">>],
      [type |-> "schema.json", filename |-> <<"schema2", ".", "json">>,
       appClient |-> "NoSuchClient"],
      [type |-> "graphql", filename |-> <<"operations", ".", "graphql">>],
      [type |-> "appsync", filename |-> <<"API", ".", "swift">>],
      [type |-> "yaml", filename |-> <<"config", ".", "yaml">>],
      [type |-> "native"],
      [filename |-> <<"untyped", ".", "json">>] }

RECURSIVE SeqsUpTo(_, _)
\* the sequences over S of length at most n
SeqsUpTo(S, n) ==
    IF n = 0 THEN { <<>> }
    ELSE LET shorter == SeqsUpTo(S, n - 1)
         IN  shorter \cup { Append(q, d) : q \in shorter, d \in S }

Configs == SeqsUpTo(Directives, MaxDirectives)

(***************************************************************************)
(* The synthesis specification: a single stack served in one page, drawn   *)
(* from every combination of the groups below, or the stack of TwinWorld,  *)
(* and one directive.                                                      *)
(***************************************************************************)
SynthItems ==
    { pools \o idps \o apis \o buckets :
        pools   \in { <<>>, <<Cl1, Up1, Up2, Cl2>>, <<Up1, Cl1, ClLost>> },
        idps    \in { <<>>, <<Idp1, Idp2>>, <<Idp2, Idp1>>, <<Idp3, Idp1>>, <<Idp4>> },
        apis    \in { <<>>, <<Rest1, Api2, Fn1, Api1, Rest2>> },
        buckets \in { <<>>, <<BktDeploy>>, <<BktDeploy, BktUploads, BktMedia>>,
                      <<BktMedia, BktDeploy>>, <<BktDisabled, BktUploads>> } }

\* a root stack and a nested stack built from one template: their REST
\* APIs have the same logical id
TwinWorld ==
    (RootStack :> << <<Rest1, StackEntry("A"), BktUploads, Up1, Cl1>> >>)
        @@ (StackA :> << <<Rest1Twin>> >>)

SynthWorlds == { (RootStack :> <<items>>) : items \in SynthItems } \cup { TwinWorld }

\* an optional property of a directive; "-" stands for its absence
Optional(key, value) == IF value = "-" THEN Empty ELSE (key :> value)

SynthDirectives ==
    { [type |-> type, filename |-> <<"out", ".", type>>]
          @@ Optional("appClient", appClient) @@ Optional("s3bucket", s3bucket) :
        type      \in { "native", "javascript", "typescript" },
        appClient \in { "-", "WebClient", "AdminClient", "NoSuchClient" },
        s3bucket  \in { "-", "disabled", "Media", "ServerlessDeploymentBucket",
                        "NoSuchBucket" } }
    \cup
    { [type |-> type, filename |-> <<"out", ".", "swift">>]
          @@ Optional("appClient", appClient) :
        type      \in { "schema.json", "graphql", "appsync" },
        appClient \in { "-", "NoSuchClient" } }

(***************************************************************************)
(* State.                                                                  *)
(***************************************************************************)
VARIABLES
    listing,            \* environment: stack name -> pages of summaries
    config,             \* this.config, the directive list
    pc,                 \* stage of the promise chain of process()
    frames,             \* call stack of listStackResources
    resources,          \* the list listStackResources(root) resolved with
    pass,               \* describeStackResources: 1 = first loop, 2 = second
    i,                  \* loop index of describeStackResources / writeConfigurationFiles
    detailedResources,  \* describeStackResources: records built so far
    requests,           \* every provider.request issued, in order
    fsOps,              \* file writes, temporary files and generator calls issued
    fsDone,             \* positions of fsOps whose fs.writeFile callback ran
    errors,             \* messages logged at level 'error'
    thrown,             \* the error the chain is rejected with, or Undefined
    promise             \* state of the promise process() returns

vars == <<listing, config, pc, frames, resources, pass, i, detailedResources,
          requests, fsOps, fsDone, errors, thrown, promise>>

\* a call of listStackResources(stackName) at its start
NewFrame(stackName) ==
    [stackName |-> stackName,
     resources |-> <<>>,
     request   |-> [StackName |-> stackName],
     phase     |-> "paging",
     it        |-> 1]

\* process() has called listStackResources(this.stackName())
Init ==
    /\ listing \in Worlds
    /\ config \in Configs
    /\ pc = "list"
    /\ frames = <<NewFrame(RootStack)>>
    /\ resources = <<>>
    /\ pass = 1
    /\ i = 1
    /\ detailedResources = <<>>
    /\ requests = <<>>
    /\ fsOps = <<>>
    /\ fsDone = {}
    /\ errors = <<>>
    /\ thrown = Undefined
    /\ promise = "pending"

(***************************************************************************)
(* The CloudFormation service.                                             *)
(***************************************************************************)
NoToken == <<>>

\* the page a listStackResources request is answered with
ListResponse(request) ==
    LET pages == listing[request.StackName]
        k     == IF "NextToken" \in DOMAIN request /\ request.NextToken # NoToken
                 THEN request.NextToken[1] ELSE 1
    IN  [StackResourceSummaries |-> pages[k],
         NextToken |-> IF k < Len(pages) THEN <<k + 1>> ELSE NoToken]

Request(api, operation, parameters) ==
    [api |-> api, operation |-> operation, parameters |-> parameters]

\* the entries of the request log: a request with the way it settled
Resolved(request) == request @@ [outcome |-> "resolved"]
Rejected(request) == request @@ [outcome |-> "rejected"]

\* an awaited request was rejected: the async function throws, every
\* enclosing await rethrows, and the chain of process() is rejected
Reject(message) ==
    /\ pc' = "rejected"
    /\ thrown' = message

(***************************************************************************)
(* listStackResources                                                      *)
(***************************************************************************)
Top == frames[Len(frames)]

SetTop(f) == [frames EXCEPT ![Len(frames)] = f]

\* ListPage with the loop left after the first page
ListPageOnce ==
    /\ pc = "list"
    /\ Top.phase = "paging"
    /\ Top.request.StackName \in DOMAIN listing
    /\ LET result == ListResponse(Top.request)
       IN  /\ requests' = Append(requests, Resolved(
                  Request("CloudFormation", "listStackResources", Top.request)))
           /\ frames' = SetTop(
                  [Top EXCEPT !.resources = @ \o result.StackResourceSummaries,
                              !.request = [StackName |-> Top.stackName,
                                           NextToken |-> result.NextToken],
                              !.phase = "iter"])
    /\ UNCHANGED <<listing, config, pc, resources, pass, i, detailedResources,
                   fsOps, fsDone, errors, thrown, promise>>

\* one turn of the do-while loop: the request is answered with a page
ListPage ==
    /\ pc = "list"
    /\ Top.phase = "paging"
    /\ Top.request.StackName \in DOMAIN listing
    /\ LET result    == ListResponse(Top.request)
           morePages == result.NextToken # NoToken
       IN  /\ requests' = Append(requests, Resolved(
                  Request("CloudFormation", "listStackResources", Top.request)))
           /\ frames' = SetTop(
                  [Top EXCEPT !.resources = @ \o result.StackResourceSummaries,
                              !.request = [StackName |-> Top.stackName,
                                           NextToken |-> result.NextToken],
                              !.phase = IF morePages THEN "paging" ELSE "iter"])
    /\ UNCHANGED <<listing, config, pc, resources, pass, i, detailedResources,
                   fsOps, fsDone, errors, thrown, promise>>

\* ListPageFails with the failure taken for an empty last page
ListPageFailsIgnored ==
    /\ pc = "list"
    /\ Top.phase = "paging"
    /\ requests' = Append(requests, Rejected(
           Request("CloudFormation", "listStackResources", Top.request)))
    /\ frames' = SetTop([Top EXCEPT !.phase = "iter"])
    /\ UNCHANGED <<listing, config, pc, resources, pass, i, detailedResources,
                   fsOps, fsDone, errors, thrown, promise>>

\* one turn of the do-while loop: the request fails
ListPageFails ==
    /\ pc = "list"
    /\ Top.phase = "paging"
    /\ requests' = Append(requests, Rejected(
           Request("CloudFormation", "listStackResources", Top.request)))
    /\ Reject(<<"listStackResources", "failed">>)
    /\ UNCHANGED <<listing, config, frames, resources, pass, i, detailedResources,
                   fsOps, fsDone, errors, promise>>

\* resource.PhysicalResourceId.split('/')[1]
NestedStackName(resource) == SplitAt(resource.PhysicalResourceId, "/", 1)

\* ListVisit with the loop staying at a resource that is no nested stack
ListVisitStays ==
    /\ pc = "list"
    /\ Top.phase = "iter"
    /\ Top.it <= Len(Top.resources)
    /\ LET resource == Top.resources[Top.it]
       IN  IF resource.ResourceType = StackType
           THEN frames' = Append(frames, NewFrame(NestedStackName(resource)))
           ELSE frames' = frames
    /\ UNCHANGED <<listing, config, pc, resources, pass, i, detailedResources,
                   requests, fsOps, fsDone, errors, thrown, promise>>

\* one turn of the for-of loop, which runs up to the current length of the
\* list: a nested stack entry starts the recursive call
ListVisit ==
    /\ pc = "list"
    /\ Top.phase = "iter"
    /\ Top.it <= Len(Top.resources)
    /\ LET resource == Top.resources[Top.it]
       IN  IF resource.ResourceType = StackType
           THEN frames' = Append(frames, NewFrame(NestedStackName(resource)))
           ELSE frames' = SetTop([Top EXCEPT !.it = @ + 1])
    /\ UNCHANGED <<listing, config, pc, resources, pass, i, detailedResources,
                   requests, fsOps, fsDone, errors, thrown, promise>>

\* ListReturn with the list of the nested stack dropped by the caller
ListReturnDropped ==
    /\ pc = "list"
    /\ Top.phase = "iter"
    /\ Top.it > Len(Top.resources)
    /\ IF Len(frames) = 1
       THEN /\ resources' = Top.resources
            /\ pc' = "describe"
            /\ frames' = <<>>
       ELSE LET caller == frames[Len(frames) - 1]
            IN  /\ frames' = Append(SubSeq(frames, 1, Len(frames) - 2),
                       [caller EXCEPT !.it = @ + 1])
                /\ UNCHANGED <<resources, pc>>
    /\ UNCHANGED <<listing, config, pass, i, detailedResources, requests,
                   fsOps, fsDone, errors, thrown, promise>>

\* return resources: to the for-of loop of the caller, which appends them
\* to its own list, or to process()
ListReturn ==
    /\ pc = "list"
    /\ Top.phase = "iter"
    /\ Top.it > Len(Top.resources)
    /\ IF Len(frames) = 1
       THEN /\ resources' = Top.resources
            /\ pc' = "describe"
            /\ frames' = <<>>
       ELSE LET caller == frames[Len(frames) - 1]
            IN  /\ frames' = Append(SubSeq(frames, 1, Len(frames) - 2),
                       [caller EXCEPT !.resources = @ \o Top.resources,
                                      !.it = @ + 1])
                /\ UNCHANGED <<resources, pc>>
    /\ UNCHANGED <<listing, config, pass, i, detailedResources, requests,
                   fsOps, fsDone, errors, thrown, promise>>

(***************************************************************************)
(* The AppSync and Cognito services.                                       *)
(***************************************************************************)
\* AppSync getGraphqlApi
GraphqlApiResponse(apiId) ==
    [graphqlApi |->
        [uris |-> [GRAPHQL |-> <<"https:", "/", "/">> \o apiId
                        \o <<".appsync-api.us-west-2.amazonaws.com", "/", "graphql">>],
         arn  |-> <<"arn", ":", "aws", ":", "appsync", ":", "us-west-2", ":",
                    "123456789012", ":", "apis", "/">> \o apiId,
         authenticationType |-> "AMAZON_COGNITO_USER_POOLS"]]

\* AppSync getIntrospectionSchema: the schema as JSON text, or a payload
\* that is not JSON
SchemaPayloads(apiId) ==
    { <<"{", "__schema">> \o apiId \o <<"}">>, <<"<html>">> \o apiId }

SyntaxError == [error |-> "SyntaxError"]

\* JSON.parse of a schema payload
JSONParse(text) ==
    IF Len(text) >= 2 /\ text[1] = "{" /\ text[Len(text)] = "}"
    THEN [document |-> SubSeq(text, 2, Len(text) - 1)]
    ELSE SyntaxError

\* JSON.stringify of a parsed schema
JSONStringify(schema) == <<"{">> \o schema.document \o <<"}">>

\* CognitoIdentity describeIdentityPool
IdentityPoolResponse(id) ==
    IF id = Idp1.PhysicalResourceId
    THEN [IdentityPoolId |-> id,
          CognitoIdentityProviders |-> << [ClientId |-> <<"client2">>] >>,
          SupportedLoginProviders |-> ("accounts.google.com" :> "google-id")]
    ELSE IF id = Idp2.PhysicalResourceId
    THEN [IdentityPoolId |-> id,
          CognitoIdentityProviders |-> << [ClientId |-> <<"client1">>] >>]
    ELSE IF id = Idp4.PhysicalResourceId
    THEN [IdentityPoolId |-> id,
          SupportedLoginProviders |-> ("api.twitter.com" :> "twitter-id")]
    ELSE [IdentityPoolId |-> id,
          SupportedLoginProviders |-> ("graph.facebook.com" :> "facebook-id")
              @@ ("www.amazon.com" :> "amazon-id") @@ ("api.twitter.com" :> "twitter-id")]

\* CognitoIdentityServiceProvider describeUserPool
UserPoolResponse(id) == [UserPool |-> [Id |-> id]]

\* the app clients that were generated with a secret
SecretClients == { <<"client2">> }

\* CognitoIdentityServiceProvider describeUserPoolClient
UserPoolClientResponse(parameters) ==
    [UserPoolClient |->
        IF parameters.ClientId \in SecretClients
        THEN [UserPoolId |-> parameters.UserPoolId, ClientId |-> parameters.ClientId,
              ClientSecret |-> <<"secret">> \o parameters.ClientId]
        ELSE [UserPoolId |-> parameters.UserPoolId, ClientId |-> parameters.ClientId]]

(***************************************************************************)
(* describeStackResources                                                  *)
(***************************************************************************)
\* resource.PhysicalResourceId.split('/')[1]
AppSyncId(resource) == SplitAt(resource.PhysicalResourceId, "/", 1)

\* FirstPassRequests with the user-pool client described in the first loop
FirstPassRequestsWithClient(resource) ==
    CASE resource.ResourceType = GraphQLApiType ->
           << Request("AppSync", "getGraphqlApi", [apiId |-> AppSyncId(resource)]),
              Request("AppSync", "getIntrospectionSchema",
                      [apiId |-> AppSyncId(resource), format |-> "JSON"]) >>
      [] resource.ResourceType = IdentityPoolType ->
           << Request("CognitoIdentity", "describeIdentityPool",
                      [IdentityPoolId |-> resource.PhysicalResourceId]) >>
      [] resource.ResourceType = UserPoolType ->
           << Request("CognitoIdentityServiceProvider", "describeUserPool",
                      [UserPoolId |-> resource.PhysicalResourceId]) >>
      [] resource.ResourceType = ClientType ->
           << Request("CognitoIdentityServiceProvider", "describeUserPoolClient",
                      [ClientId |-> resource.PhysicalResourceId]) >>
      [] OTHER -> <<>>

\* the requests the first loop awaits for a resource, in order
FirstPassRequests(resource) ==
    CASE resource.ResourceType = GraphQLApiType ->
           << Request("AppSync", "getGraphqlApi", [apiId |-> AppSyncId(resource)]),
              Request("AppSync", "getIntrospectionSchema",
                      [apiId |-> AppSyncId(resource), format |-> "JSON"]) >>
      [] resource.ResourceType = IdentityPoolType ->
           << Request("CognitoIdentity", "describeIdentityPool",
                      [IdentityPoolId |-> resource.PhysicalResourceId]) >>
      [] resource.ResourceType = UserPoolType ->
           << Request("CognitoIdentityServiceProvider", "describeUserPool",
                      [UserPoolId |-> resource.PhysicalResourceId]) >>
      [] OTHER -> <<>>

\* FirstPassRecords without the case of the REST API
FirstPassRecordsNoRestApi(resource, schemaText) ==
    CASE resource.ResourceType = GraphQLApiType ->
           << resource @@ [metadata |-> GraphqlApiResponse(AppSyncId(resource)),
                           schema   |-> JSONParse(schemaText)] >>
      [] resource.ResourceType = IdentityPoolType ->
           << resource @@ [metadata |-> IdentityPoolResponse(resource.PhysicalResourceId)] >>
      [] resource.ResourceType = UserPoolType ->
           << resource @@ [metadata |-> UserPoolResponse(resource.PhysicalResourceId)] >>
      [] resource.ResourceType = BucketType -> << resource >>
      [] OTHER -> <<>>

\* what the first loop pushes for a resource whose requests succeeded;
\* schemaText is the payload of getIntrospectionSchema
FirstPassRecords(resource, schemaText) ==
    CASE resource.ResourceType = GraphQLApiType ->
           << resource @@ [metadata |-> GraphqlApiResponse(AppSyncId(resource)),
                           schema   |-> JSONParse(schemaText)] >>
      [] resource.ResourceType = IdentityPoolType ->
           << resource @@ [metadata |-> IdentityPoolResponse(resource.PhysicalResourceId)] >>
      [] resource.ResourceType = UserPoolType ->
           << resource @@ [metadata |-> UserPoolResponse(resource.PhysicalResourceId)] >>
      [] resource.ResourceType = BucketType -> << resource >>
      [] resource.ResourceType = RestApiType -> << resource >>
      [] OTHER -> <<>>

RECURSIVE AllResolved(_)
AllResolved(reqs) ==
    IF reqs = <<>> THEN <<>>
    ELSE <<Resolved(reqs[1])>> \o AllResolved(Tail(reqs))

\* the log of a turn whose requests were all answered; the answer of
\* getIntrospectionSchema is kept with its entry
FirstPassLog(resource, schemaText) ==
    IF resource.ResourceType = GraphQLApiType
    THEN << Resolved(FirstPassRequests(resource)[1]),
            Resolved(FirstPassRequests(resource)[2]) @@ [schema |-> schemaText] >>
    ELSE AllResolved(FirstPassRequests(resource))

\* one turn of the first loop, every request of it answered
DescribeResource ==
    /\ pc = "describe"
    /\ pass = 1
    /\ i <= Len(resources)
    /\ \E schemaText \in SchemaPayloads(AppSyncId(resources[i])) :
          /\ resources[i].ResourceType = GraphQLApiType
                => JSONParse(schemaText) # SyntaxError
          /\ detailedResources' =
                 detailedResources \o FirstPassRecords(resources[i], schemaText)
          /\ requests' = requests \o FirstPassLog(resources[i], schemaText)
    /\ i' = i + 1
    /\ UNCHANGED <<listing, config, pc, frames, resources, pass, fsOps, fsDone,
                   errors, thrown, promise>>

\* DescribeRequestFails with the resource skipped and the loop continued
DescribeRequestFailsSkipped ==
    /\ pc = "describe"
    /\ pass = 1
    /\ i <= Len(resources)
    /\ \E n \in 1..Len(FirstPassRequests(resources[i])) :
          requests' = requests
              \o AllResolved(SubSeq(FirstPassRequests(resources[i]), 1, n - 1))
              \o <<Rejected(FirstPassRequests(resources[i])[n])>>
    /\ i' = i + 1
    /\ UNCHANGED <<listing, config, pc, frames, resources, pass, detailedResources,
                   fsOps, fsDone, errors, thrown, promise>>

\* one turn of the first loop in which the n-th request fails
DescribeRequestFails ==
    /\ pc = "describe"
    /\ pass = 1
    /\ i <= Len(resources)
    /\ \E n \in 1..Len(FirstPassRequests(resources[i])) :
          /\ requests' = requests
                 \o AllResolved(SubSeq(FirstPassRequests(resources[i]), 1, n - 1))
                 \o <<Rejected(FirstPassRequests(resources[i])[n])>>
          /\ Reject(<<FirstPassRequests(resources[i])[n].operation, "failed">>)
    /\ UNCHANGED <<listing, config, frames, resources, pass, i, detailedResources,
                   fsOps, fsDone, errors, promise>>

\* one turn of the first loop in which JSON.parse throws on the schema
DescribeSchemaFails ==
    /\ pc = "describe"
    /\ pass = 1
    /\ i <= Len(resources)
    /\ resources[i].ResourceType = GraphQLApiType
    /\ \E schemaText \in SchemaPayloads(AppSyncId(resources[i])) :
          /\ JSONParse(schemaText) = SyntaxError
          /\ requests' = requests \o FirstPassLog(resources[i], schemaText)
    /\ Reject(<<"JSON.parse", "failed">>)
    /\ UNCHANGED <<listing, config, frames, resources, pass, i, detailedResources,
                   fsOps, fsDone, errors, promise>>

\* the first loop ends and the second begins
DescribeSecondPass ==
    /\ pc = "describe"
    /\ pass = 1
    /\ i > Len(resources)
    /\ pass' = 2
    /\ i' = 1
    /\ UNCHANGED <<listing, config, pc, frames, resources, detailedResources,
                   requests, fsOps, fsDone, errors, thrown, promise>>

\* compiledCloudFormationTemplate.Resources[resource.LogicalResourceId]
\*     .Properties.UserPoolId.Ref
UserPoolName(resource) ==
    IF resource.LogicalResourceId \in DOMAIN CompiledTemplate
    THEN CompiledTemplate[resource.LogicalResourceId]
    ELSE "undefined"

\* UserPoolResource with the first user pool taken, whatever its name
UserPoolResourceAny(all, resource) ==
    LET IsPool(r) == r.ResourceType = UserPoolType
    IN  First(Filter(all, { e \in Range(all) : IsPool(e) }))

\* resources.filter(r => user pool named userPoolName)[0]
UserPoolResource(all, resource) ==
    LET IsParent(r) == r.ResourceType = UserPoolType
                       /\ r.LogicalResourceId = UserPoolName(resource)
    IN  First(Filter(all, { e \in Range(all) : IsParent(e) }))

\* the parameters of describeUserPoolClient
ClientParameters(all, resource) ==
    [ClientId   |-> resource.PhysicalResourceId,
     UserPoolId |-> UserPoolResource(all, resource).PhysicalResourceId]

\* reading a property of undefined throws before any request is made
ClientThrows(all, resource) ==
    \/ resource.LogicalResourceId \notin DOMAIN CompiledTemplate
    \/ ~IsDefined(UserPoolResource(all, resource))

\* one turn of the second loop: a user pool client is described, every
\* other resource is passed over
DescribeClient ==
    /\ pc = "describe"
    /\ pass = 2
    /\ i <= Len(resources)
    /\ IF resources[i].ResourceType = ClientType
       THEN /\ ~ClientThrows(resources, resources[i])
            /\ LET parameters == ClientParameters(resources, resources[i])
               IN  /\ requests' = Append(requests, Resolved(
                          Request("CognitoIdentityServiceProvider",
                                  "describeUserPoolClient", parameters)))
                   /\ detailedResources' = Append(detailedResources,
                          resources[i] @@ [metadata |-> UserPoolClientResponse(parameters)])
       ELSE UNCHANGED <<requests, detailedResources>>
    /\ i' = i + 1
    /\ UNCHANGED <<listing, config, pc, frames, resources, pass, fsOps, fsDone,
                   errors, thrown, promise>>

\* one turn of the second loop in which describeUserPoolClient fails
DescribeClientFails ==
    /\ pc = "describe"
    /\ pass = 2
    /\ i <= Len(resources)
    /\ resources[i].ResourceType = ClientType
    /\ ~ClientThrows(resources, resources[i])
    /\ requests' = Append(requests, Rejected(
           Request("CognitoIdentityServiceProvider", "describeUserPoolClient",
                   ClientParameters(resources, resources[i]))))
    /\ Reject(<<"describeUserPoolClient", "failed">>)
    /\ UNCHANGED <<listing, config, frames, resources, pass, i, detailedResources,
                   fsOps, fsDone, errors, promise>>

\* one turn of the second loop in which the client has no template entry
\* or no deployed parent pool: a TypeError
DescribeClientThrows ==
    /\ pc = "describe"
    /\ pass = 2
    /\ i <= Len(resources)
    /\ resources[i].ResourceType = ClientType
    /\ ClientThrows(resources, resources[i])
    /\ Reject(<<"TypeError", "Cannot read property of undefined">>)
    /\ UNCHANGED <<listing, config, frames, resources, pass, i, detailedResources,
                   requests, fsOps, fsDone, errors, promise>>

\* return detailedResources: the chain calls writeConfigurationFiles
DescribeReturn ==
    /\ pc = "describe"
    /\ pass = 2
    /\ i > Len(resources)
    /\ pc' = "write"
    /\ i' = 1
    /\ UNCHANGED <<listing, config, frames, resources, pass, detailedResources,
                   requests, fsOps, fsDone, errors, thrown, promise>>

(***************************************************************************)
(* The synthesizers.  A configuration object is a function from its keys.  *)
(***************************************************************************)
\* object.hasOwnProperty(key)
HasOwnProperty(object, key) == key \in DOMAIN object

\* `${name}/${version}` of package.json
UserAgent == <<"aws-amplify-serverless-plugin", "/", "1.4.1">>

\* this.provider.getRegion() and this.provider.getStage()
ProviderRegion == "us-east-1"
ProviderStage  == "dev"

\* the endpoint of a REST API
RestEndpoint(v) ==
    <<"https:", "/", "/">> \o v.PhysicalResourceId
        \o <<".execute-api.", ProviderRegion, ".amazonaws.com", "/", ProviderStage>>

\* resources.find(r => user pool client named fileDetails.appClient)
AppClient(records, fileDetails) ==
    LET Named(r) == r.ResourceType = ClientType
                    /\ r.LogicalResourceId = fileDetails.appClient
    IN  Find(records, { e \in Range(records) : Named(e) })

\* throw new Error(`Invalid appClient specified: ...`)
InvalidAppClient(records, fileDetails) ==
    /\ HasOwnProperty(fileDetails, "appClient")
    /\ ~IsDefined(AppClient(records, fileDetails))

\* resources.filter(r => r.ResourceType === 'AWS::Cognito::IdentityPool')
IdentityPools(records) ==
    LET IsPool(r) == r.ResourceType = IdentityPoolType
    IN  Filter(records, { e \in Range(records) : IsPool(e) })

\* r.metadata.CognitoIdentityProviders &&
\*     r.metadata.CognitoIdentityProviders.some(({ClientId}) => ClientId === clientId)
Federates(r, clientId) ==
    /\ HasOwnProperty(r.metadata, "CognitoIdentityProviders")
    /\ \E k \in 1..Len(r.metadata.CognitoIdentityProviders) :
          r.metadata.CognitoIdentityProviders[k].ClientId = clientId

\* S3Buckets with the deployment bucket kept
S3BucketsAll(records) ==
    LET IsBucket(r) == r.ResourceType = BucketType
    IN  Filter(records, { e \in Range(records) : IsBucket(e) })

\* resources.filter(bucket other than the deployment bucket)
S3Buckets(records) ==
    LET IsUserBucket(r) == r.ResourceType = BucketType
                           /\ r.LogicalResourceId # "ServerlessDeploymentBucket"
    IN  Filter(records, { e \in Range(records) : IsUserBucket(e) })

\* UserFiles with a named bucket looked up among all the records
UserFilesAmongAll(records, fileDetails) ==
    LET s3buckets == S3Buckets(records)
        Named(r)  == r.ResourceType = BucketType
                     /\ r.LogicalResourceId = fileDetails.s3bucket
    IN  IF Len(s3buckets) > 0
        THEN IF HasOwnProperty(fileDetails, "s3bucket")
             THEN Find(records, { e \in Range(records) : Named(e) })
             ELSE s3buckets[1]
        ELSE NotFound

\* UserFiles with the first bucket taken when the named one is not found
UserFilesFallsBack(records, fileDetails) ==
    LET s3buckets == S3Buckets(records)
        Named(r)  == r.LogicalResourceId = fileDetails.s3bucket
        named     == Find(s3buckets, { e \in Range(s3buckets) : Named(e) })
    IN  IF Len(s3buckets) > 0
        THEN IF HasOwnProperty(fileDetails, "s3bucket") /\ IsDefined(named)
             THEN named
             ELSE s3buckets[1]
        ELSE NotFound

\* the bucket of the storage section, if any
UserFiles(records, fileDetails) ==
    LET s3buckets == S3Buckets(records)
        Named(r)  == r.LogicalResourceId = fileDetails.s3bucket
    IN  IF Len(s3buckets) > 0
        THEN IF HasOwnProperty(fileDetails, "s3bucket")
             THEN Find(s3buckets, { e \in Range(s3buckets) : Named(e) })
             ELSE s3buckets[1]
        ELSE NotFound

\* resources.filter(r => r.ResourceType === 'AWS::ApiGateway::RestApi')
RestApis(records) ==
    LET IsRest(r) == r.ResourceType = RestApiType
    IN  Filter(records, { e \in Range(records) : IsRest(e) })

\* AppSync with the last GraphQL API taken
AppSyncLast(records) ==
    LET IsApi(r) == r.ResourceType = GraphQLApiType
        apis == Filter(records, { e \in Range(records) : IsApi(e) })
    IN  IF apis = <<>> THEN NotFound ELSE apis[Len(apis)]

\* resources.find(r => r.ResourceType === 'AWS::AppSync::GraphQLApi')
AppSync(records) ==
    LET IsApi(r) == r.ResourceType = GraphQLApiType
    IN  Find(records, { e \in Range(records) : IsApi(e) })

\* NativeIdentityPool with the first identity pool taken
NativeIdentityPoolFirst(records, fileDetails, cfg) == First(IdentityPools(records))

\* the identity pool writeNativeConfiguration selects, given the config
\* built so far
NativeIdentityPool(records, fileDetails, cfg) ==
    LET identityPools == IdentityPools(records)
        Match(r) == Federates(r, cfg.CognitoUserPool.Default.AppClientId)
        identityPoolForUserPool ==
            IF HasOwnProperty(fileDetails, "appClient")
            THEN Find(identityPools, { e \in Range(identityPools) : Match(e) })
            ELSE NotFound
    IN  IF IsDefined(identityPoolForUserPool)
        THEN identityPoolForUserPool
        ELSE First(identityPools)

\* the config object of writeNativeConfiguration; the caller has checked
\* that it does not throw
NativeConfiguration(records, fileDetails) ==
    LET base == [UserAgent |-> UserAgent, Version |-> "1.0"]
        appClient == AppClient(records, fileDetails)
        client == appClient.metadata.UserPoolClient
        userPool ==
            IF HasOwnProperty(fileDetails, "appClient")
            THEN "CognitoUserPool" :> [Default |->
                     [PoolId |-> client.UserPoolId,
                      Region |-> SplitAt(client.UserPoolId, "_", 0),
                      AppClientId |-> client.ClientId]
                     @@ (IF HasOwnProperty(client, "ClientSecret")
                         THEN [AppClientSecret |-> client.ClientSecret]
                         ELSE Empty)]
            ELSE Empty
        identityPool == NativeIdentityPool(records, fileDetails, base @@ userPool)
        credentials ==
            IF IsDefined(identityPool)
            THEN "CredentialsProvider" :> [CognitoIdentity |-> [Default |->
                     [Region |-> SplitAt(identityPool.PhysicalResourceId, ":", 0),
                      PoolId |-> identityPool.PhysicalResourceId]]]
            ELSE Empty
        providers ==
            IF IsDefined(identityPool)
               /\ HasOwnProperty(identityPool.metadata, "SupportedLoginProviders")
            THEN identityPool.metadata.SupportedLoginProviders
            ELSE Empty
        google ==
            IF "accounts.google.com" \in DOMAIN providers
            THEN "GoogleSignin" :> (("Permissions" :> "email,profile,openid")
                     @@ ("ClientId-WebApp" :> providers["accounts.google.com"]))
            ELSE Empty
        facebook ==
            IF "graph.facebook.com" \in DOMAIN providers
            THEN "FacebookSignin" :> [Permissions |-> "public_profile",
                                      AppId |-> providers["graph.facebook.com"]]
            ELSE Empty
        amazon ==
            IF "www.amazon.com" \in DOMAIN providers
            THEN "AmazonSignin" :> [Permissions |-> "profile",
                                    ClientId |-> providers["www.amazon.com"]]
            ELSE Empty
        appSync == AppSync(records)
        api ==
            IF IsDefined(appSync)
            THEN "AppSync" :> [Default |->
                     [ApiUrl |-> appSync.metadata.graphqlApi.uris.GRAPHQL,
                      Region |-> SplitAt(appSync.metadata.graphqlApi.arn, ":", 3),
                      AuthMode |-> appSync.metadata.graphqlApi.authenticationType]]
            ELSE Empty
        userFiles == UserFiles(records, fileDetails)
        storage ==
            IF IsDefined(userFiles)
            THEN "S3TransferUtility" :> [Default |->
                     [Bucket |-> userFiles.PhysicalResourceId,
                      Region |-> ProviderRegion]]
            ELSE Empty
        apigw == RestApis(records)
        gateway ==
            IF Len(apigw) > 0
            THEN "APIGateway" :>
                     [name \in { apigw[k].LogicalResourceId : k \in 1..Len(apigw) } |->
                         LET Named(v) == v.LogicalResourceId = name
                             last == Filter(apigw, { e \in Range(apigw) : Named(e) })
                         IN  [Endpoint |-> RestEndpoint(last[Len(last)]),
                              Region |-> ProviderRegion]]
            ELSE Empty
    IN  base @@ userPool @@ credentials @@ google @@ facebook @@ amazon
             @@ api @@ storage @@ gateway

\* the identity pool getJavaScriptConfiguration selects, given the config
\* built so far
JavaScriptIdentityPool(records, fileDetails, cfg) ==
    LET identityPools == IdentityPools(records)
        Match(r) == Federates(r, cfg.aws_user_pools_web_client_id)
        identityPoolForUserPool ==
            IF HasOwnProperty(fileDetails, "appClient")
            THEN Find(identityPools, { e \in Range(identityPools) : Match(e) })
            ELSE NotFound
    IN  IF IsDefined(identityPoolForUserPool)
        THEN identityPoolForUserPool
        ELSE First(identityPools)

\* getJavaScriptConfiguration; the caller has checked that it does not throw
JavaScriptConfiguration(records, fileDetails) ==
    LET base == [aws_project_region |-> ProviderRegion]
        appClient == AppClient(records, fileDetails)
        client == appClient.metadata.UserPoolClient
        userPool ==
            IF HasOwnProperty(fileDetails, "appClient")
            THEN [aws_cognito_region |-> SplitAt(client.UserPoolId, "_", 0),
                  aws_user_pools_id |-> client.UserPoolId,
                  aws_user_pools_web_client_id |-> client.ClientId]
                 @@ (IF HasOwnProperty(client, "ClientSecret")
                     THEN [aws_user_pools_web_client_secret |-> client.ClientSecret]
                     ELSE Empty)
            ELSE Empty
        identityPool == JavaScriptIdentityPool(records, fileDetails, base @@ userPool)
        \* the region of the identity pool only where no key is there yet
        credentials ==
            IF IsDefined(identityPool)
            THEN (IF ~HasOwnProperty(base @@ userPool, "aws_cognito_region")
                  THEN [aws_cognito_region |->
                            SplitAt(identityPool.PhysicalResourceId, ":", 0)]
                  ELSE Empty)
                 @@ [aws_cognito_identity_pool_id |-> identityPool.PhysicalResourceId]
            ELSE Empty
        providers ==
            IF IsDefined(identityPool)
               /\ HasOwnProperty(identityPool.metadata, "SupportedLoginProviders")
            THEN identityPool.metadata.SupportedLoginProviders
            ELSE Empty
        federated ==
            (IF "accounts.google.com" \in DOMAIN providers
             THEN [google_client_id |-> providers["accounts.google.com"]] ELSE Empty)
            @@ (IF "graph.facebook.com" \in DOMAIN providers
                THEN [facebook_app_id |-> providers["graph.facebook.com"]] ELSE Empty)
            @@ (IF "www.amazon.com" \in DOMAIN providers
                THEN [amazon_client_id |-> providers["www.amazon.com"]] ELSE Empty)
        hasFederated == DOMAIN federated # {}
        appSync == AppSync(records)
        api ==
            IF IsDefined(appSync)
            THEN [aws_appsync_graphqlEndpoint |-> appSync.metadata.graphqlApi.uris.GRAPHQL,
                  aws_appsync_region |-> SplitAt(appSync.metadata.graphqlApi.arn, ":", 3),
                  aws_appsync_authenticationType |->
                      appSync.metadata.graphqlApi.authenticationType]
            ELSE Empty
        userFiles == UserFiles(records, fileDetails)
        storage ==
            IF IsDefined(userFiles)
            THEN [aws_user_files_s3_bucket |-> userFiles.PhysicalResourceId,
                  aws_user_files_s3_bucket_region |-> ProviderRegion]
            ELSE Empty
        apigw == RestApis(records)
        logic ==
            IF Len(apigw) > 0
            THEN [aws_cloud_logic_custom |->
                     [k \in 1..Len(apigw) |->
                         [endpoint |-> RestEndpoint(apigw[k]),
                          name |-> apigw[k].LogicalResourceId,
                          region |-> ProviderRegion]]]
            ELSE Empty
    IN  base @@ userPool @@ credentials
             @@ (IF hasFederated THEN [federated |-> federated] ELSE Empty)
             @@ api @@ storage @@ logic

(***************************************************************************)
(* File system and generators.                                             *)
(***************************************************************************)
\* fs.writeFile(filename, contents, 'utf8', callback)
WriteFile(filename, contents) ==
    [op |-> "writeFile", filename |-> filename, contents |-> contents]

\* path.join('.serverless', name)
ServerlessPath(name) == <<".serverless", "/", name>>

\* path.resolve(p)
PathResolve(p) == <<"/project", "/">> \o p

RECURSIVE LastDot(_, _)
\* position of the last '.' of name at or before position k, 0 if none
LastDot(name, k) ==
    IF k = 0 THEN 0
    ELSE IF name[k] = "." THEN k
    ELSE LastDot(name, k - 1)

\* path.extname(filename).substr(1)
FileType(filename) ==
    LET dot == LastDot(filename, Len(filename))
    IN  IF dot <= 1 THEN <<>> ELSE SubSeq(filename, dot + 1, Len(filename))

\* getTemporarySchemaFile: writes the schema, returns the path
TemporarySchemaFile == ServerlessPath("amplify-schema.json")

WriteSchemaSync(resource) ==
    [op |-> "writeFileSync", filename |-> TemporarySchemaFile,
     contents |-> JSONStringify(resource.schema)]

\* getTemporaryOperationsFile
TemporaryOperationsFile == ServerlessPath("amplify-operations.graphql")

\* graphqlGenerator(schemaFile, output, { language: 'graphql' })
GraphqlGenerator(schemaFile, output) ==
    [op |-> "graphqlGenerator", schemaFile |-> schemaFile, filename |-> output]

\* apiGenerator.generate([graphqlFile], schemaFile, output, '', fileType, ...)
ApiGenerator(graphqlFile, schemaFile, output, fileType) ==
    [op |-> "apiGenerator.generate", operations |-> <<graphqlFile>>,
     schemaFile |-> schemaFile, filename |-> output, target |-> fileType]

\* the values new Date().toISOString() takes in the model
Timestamps == { "2019-03-01T10:00:00.000Z", "2019-03-01T10:00:01.000Z" }

\* String.prototype.toLowerCase, on the words used as directive types
ToLowerCase(word) ==
    CASE word = "Native"     -> "native"
      [] word = "JavaScript" -> "javascript"
      [] word = "TypeScript" -> "typescript"
      [] word = "GraphQL"    -> "graphql"
      [] word = "AppSync"    -> "appsync"
      [] OTHER               -> word

(***************************************************************************)
(* writeConfigurationFiles: what the loop body does for one directive.     *)
(* An outcome is the error thrown (Undefined if none), the error messages  *)
(* logged and the file-system operations issued before it returns.         *)
(***************************************************************************)
Returns(ops) == [thrown |-> Undefined, logged |-> <<>>, ops |-> ops]

Throws(message, logged) == [thrown |-> message, logged |-> logged, ops |-> <<>>]

\* WriteNativeConfiguration with APIGateway written also when it is empty
WriteNativeConfigurationGateway(records, fileDetails) ==
    IF InvalidAppClient(records, fileDetails)
    THEN Throws(<<"Invalid appClient specified", fileDetails.appClient>>, <<>>)
    ELSE Returns(<< WriteFile(fileDetails.filename,
                       [json |-> NativeConfiguration(records, fileDetails)
                                     @@ ("APIGateway" :> Empty)]) >>)

\* WriteNativeConfiguration with the facebook section left out
WriteNativeConfigurationNoFacebook(records, fileDetails) ==
    IF InvalidAppClient(records, fileDetails)
    THEN Throws(<<"Invalid appClient specified", fileDetails.appClient>>, <<>>)
    ELSE LET cfg == NativeConfiguration(records, fileDetails)
         IN  Returns(<< WriteFile(fileDetails.filename,
                            [json |-> [key \in DOMAIN cfg \ {"FacebookSignin"} |->
                                          cfg[key]]]) >>)

\* writeNativeConfiguration
WriteNativeConfiguration(records, fileDetails) ==
    IF InvalidAppClient(records, fileDetails)
    THEN Throws(<<"Invalid appClient specified", fileDetails.appClient>>, <<>>)
    ELSE Returns(<< WriteFile(fileDetails.filename,
                       [json |-> NativeConfiguration(records, fileDetails)]) >>)

\* WriteJavaScriptConfiguration with an unknown app client left out
WriteJavaScriptConfigurationLenient(records, fileDetails, now) ==
    Returns(<< WriteFile(fileDetails.filename,
                  [header |-> <<"// Written by", UserAgent, "on", now>>,
                   awsmobile |->
                       IF InvalidAppClient(records, fileDetails)
                       THEN [aws_project_region |-> ProviderRegion]
                       ELSE JavaScriptConfiguration(records, fileDetails),
                   footer |-> "export default awsmobile;"]) >>)

\* writeJavaScriptConfiguration
WriteJavaScriptConfiguration(records, fileDetails, now) ==
    IF InvalidAppClient(records, fileDetails)
    THEN Throws(<<"Invalid appClient specified", fileDetails.appClient>>, <<>>)
    ELSE Returns(<< WriteFile(fileDetails.filename,
                       [header |-> <<"// Written by", UserAgent, "on", now>>,
                        awsmobile |-> JavaScriptConfiguration(records, fileDetails),
                        footer |-> "export default awsmobile;"]) >>)

\* writeTypeScriptConfiguration
WriteTypeScriptConfiguration(records, fileDetails, now) ==
    IF InvalidAppClient(records, fileDetails)
    THEN Throws(<<"Invalid appClient specified", fileDetails.appClient>>, <<>>)
    ELSE Returns(<< WriteFile(fileDetails.filename,
                       [header |-> <<"// Written by", UserAgent, "on", now>>,
                        interface |-> "IAWSAmplifyConfiguration",
                        awsmobile |-> JavaScriptConfiguration(records, fileDetails),
                        footer |-> "export default awsmobile;"]) >>)

\* writeSchemaJSONConfiguration
WriteSchemaJSONConfiguration(records, fileDetails) ==
    IF IsDefined(AppSync(records))
    THEN Returns(<< WriteFile(fileDetails.filename,
                       JSONStringify(AppSync(records).schema)) >>)
    ELSE Throws(<<"No GraphQL API found - cannot write schema.json file">>, <<>>)

\* writeGraphQLOperations
WriteGraphQLOperations(records, fileDetails) ==
    IF IsDefined(AppSync(records))
    THEN Returns(<< WriteSchemaSync(AppSync(records)),
                    GraphqlGenerator(TemporarySchemaFile, fileDetails.filename) >>)
    ELSE Throws(<<"No GraphQL API found - cannot write file", fileDetails.filename>>, <<>>)

\* writeAppSyncAPI
WriteAppSyncAPI(records, fileDetails) ==
    IF IsDefined(AppSync(records))
    THEN LET schemaFile  == PathResolve(TemporarySchemaFile)
             graphqlFile == PathResolve(TemporaryOperationsFile)
         IN  Returns(<< WriteSchemaSync(AppSync(records)),
                        GraphqlGenerator(schemaFile, TemporaryOperationsFile),
                        ApiGenerator(graphqlFile, schemaFile, fileDetails.filename,
                                     FileType(fileDetails.filename)) >>)
    ELSE Throws(<<"No GraphQL API found - cannot write file", fileDetails.filename>>, <<>>)

\* ProcessDirective with a directive it cannot read passed over
ProcessDirectiveLenient(records, fileDetails, now) ==
    IF HasOwnProperty(fileDetails, "type") /\ HasOwnProperty(fileDetails, "filename")
    THEN LET type == ToLowerCase(fileDetails.type)
         IN  CASE type = "native" -> WriteNativeConfiguration(records, fileDetails)
               [] type = "javascript" ->
                      WriteJavaScriptConfiguration(records, fileDetails, now)
               [] type = "typescript" ->
                      WriteTypeScriptConfiguration(records, fileDetails, now)
               [] type = "schema.json" ->
                      WriteSchemaJSONConfiguration(records, fileDetails)
               [] type = "graphql" -> WriteGraphQLOperations(records, fileDetails)
               [] type = "appsync" -> WriteAppSyncAPI(records, fileDetails)
               [] OTHER -> Returns(<<>>)
    ELSE Returns(<<>>)

\* the body of the for loop of writeConfigurationFiles
ProcessDirective(records, fileDetails, now) ==
    IF HasOwnProperty(fileDetails, "type") /\ HasOwnProperty(fileDetails, "filename")
    THEN LET type == ToLowerCase(fileDetails.type)
         IN  CASE type = "native" -> WriteNativeConfiguration(records, fileDetails)
               [] type = "javascript" ->
                      WriteJavaScriptConfiguration(records, fileDetails, now)
               [] type = "typescript" ->
                      WriteTypeScriptConfiguration(records, fileDetails, now)
               [] type = "schema.json" ->
                      WriteSchemaJSONConfiguration(records, fileDetails)
               [] type = "graphql" -> WriteGraphQLOperations(records, fileDetails)
               [] type = "appsync" -> WriteAppSyncAPI(records, fileDetails)
               [] OTHER ->
                      Throws(<<"Invalid Amplify configuration type directive">>,
                             << <<"Invalid Amplify configuration type directive">> >>)
    ELSE Throws(<<"Invalid Amplify configuration directive">>,
                << <<"Invalid Amplify configuration directive">> >>)

\* WriteDirective with the buckets gone from the list of records once a
\* directive has issued its output
WriteDirectiveConsumesBuckets ==
    /\ pc = "write"
    /\ i <= Len(config)
    /\ \E now \in Timestamps :
          LET IsBucket(r) == r.ResourceType = BucketType
              records == IF fsOps = <<>> THEN detailedResources
                         ELSE Filter(detailedResources,
                                     { e \in Range(detailedResources) : ~IsBucket(e) })
              outcome == ProcessDirective(records, config[i], now)
          IN  /\ outcome.thrown = Undefined
              /\ fsOps' = fsOps \o outcome.ops
    /\ i' = i + 1
    /\ UNCHANGED <<listing, config, pc, frames, resources, pass, detailedResources,
                   requests, fsDone, errors, thrown, promise>>

\* WriteDirective with the list of directives taken from its end
WriteDirectiveFromEnd ==
    /\ pc = "write"
    /\ i <= Len(config)
    /\ \E now \in Timestamps :
          LET outcome == ProcessDirective(detailedResources,
                                          config[Len(config) + 1 - i], now)
          IN  /\ outcome.thrown = Undefined
              /\ fsOps' = fsOps \o outcome.ops
    /\ i' = i + 1
    /\ UNCHANGED <<listing, config, pc, frames, resources, pass, detailedResources,
                   requests, fsDone, errors, thrown, promise>>

\* one turn of the loop of writeConfigurationFiles that returns
WriteDirective ==
    /\ pc = "write"
    /\ i <= Len(config)
    /\ \E now \in Timestamps :
          LET outcome == ProcessDirective(detailedResources, config[i], now)
          IN  /\ outcome.thrown = Undefined
              /\ fsOps' = fsOps \o outcome.ops
    /\ i' = i + 1
    /\ UNCHANGED <<listing, config, pc, frames, resources, pass, detailedResources,
                   requests, fsDone, errors, thrown, promise>>

\* WriteDirectiveThrows with the error kept and the loop continued
WriteDirectiveThrowsContinues ==
    /\ pc = "write"
    /\ i <= Len(config)
    /\ \E now \in Timestamps :
          LET outcome == ProcessDirective(detailedResources, config[i], now)
          IN  /\ outcome.thrown # Undefined
              /\ errors' = errors \o outcome.logged
              /\ thrown' = outcome.thrown
    /\ i' = i + 1
    /\ UNCHANGED <<listing, config, pc, frames, resources, pass, detailedResources,
                   requests, fsOps, fsDone, promise>>

\* one turn of the loop of writeConfigurationFiles that throws
WriteDirectiveThrows ==
    /\ pc = "write"
    /\ i <= Len(config)
    /\ \E now \in Timestamps :
          LET outcome == ProcessDirective(detailedResources, config[i], now)
          IN  /\ outcome.thrown # Undefined
              /\ errors' = errors \o outcome.logged
              /\ Reject(outcome.thrown)
    /\ UNCHANGED <<listing, config, frames, resources, pass, i, detailedResources,
                   requests, fsOps, fsDone, promise>>

\* writeConfigurationFiles returns: the chain of process() resolves
WriteReturn ==
    /\ pc = "write"
    /\ i > Len(config)
    /\ pc' = "done"
    /\ promise' = "resolved"
    /\ UNCHANGED <<listing, config, frames, resources, pass, i, detailedResources,
                   requests, fsOps, fsDone, errors, thrown>>

\* WriteFileCallback with a failed write thrown
WriteFileCallbackThrows ==
    /\ pc = "done"
    /\ \E k \in 1..Len(fsOps) :
          /\ fsOps[k].op = "writeFile"
          /\ k \notin fsDone
          /\ fsDone' = fsDone \cup {k}
          /\ \E err \in BOOLEAN :
                IF err
                THEN /\ errors' = Append(errors, <<"Writing to", fsOps[k].filename>>)
                     /\ Reject(<<"Writing to", fsOps[k].filename>>)
                ELSE UNCHANGED <<errors, pc, thrown>>
    /\ UNCHANGED <<listing, config, frames, resources, pass, i, detailedResources,
                   requests, fsOps, promise>>

\* the callback of a fs.writeFile runs, after the synchronous loop and the
\* promise reactions that follow it; a failed write is only logged
WriteFileCallback ==
    /\ pc = "done"
    /\ \E k \in 1..Len(fsOps) :
          /\ fsOps[k].op = "writeFile"
          /\ k \notin fsDone
          /\ fsDone' = fsDone \cup {k}
          /\ \E err \in BOOLEAN :
                errors' = IF err THEN Append(errors, <<"Writing to", fsOps[k].filename>>)
                          ELSE errors
    /\ UNCHANGED <<listing, config, pc, frames, resources, pass, i, detailedResources,
                   requests, fsOps, thrown, promise>>

\* Catch with the error thrown again after it is logged
CatchRethrows ==
    /\ pc = "rejected"
    /\ errors' = Append(errors, <<"Cannot load resources", thrown>>)
    /\ pc' = "done"
    /\ promise' = "rejected"
    /\ UNCHANGED <<listing, config, frames, resources, pass, i, detailedResources,
                   requests, fsOps, fsDone, thrown>>

\* .catch(error => this.log('error', ...)): the chain resolves
Catch ==
    /\ pc = "rejected"
    /\ errors' = Append(errors, <<"Cannot load resources", thrown>>)
    /\ pc' = "done"
    /\ promise' = "resolved"
    /\ UNCHANGED <<listing, config, frames, resources, pass, i, detailedResources,
                   requests, fsOps, fsDone, thrown>>

Next ==
    \/ ListPage
    \/ ListPageFails
    \/ ListVisit
    \/ ListReturn
    \/ DescribeResource
    \/ DescribeRequestFails
    \/ DescribeSchemaFails
    \/ DescribeSecondPass
    \/ DescribeClient
    \/ DescribeClientFails
    \/ DescribeClientThrows
    \/ DescribeReturn
    \/ WriteDirective
    \/ WriteDirectiveThrows
    \/ WriteReturn
    \/ WriteFileCallback
    \/ Catch

Spec == Init /\ [][Next]_vars

\* the same program, started on the stacks and directives of the synthesis
\* specification
InitSynth ==
    /\ listing \in SynthWorlds
    /\ config \in { <<d>> : d \in SynthDirectives }
    /\ pc = "list"
    /\ frames = <<NewFrame(RootStack)>>
    /\ resources = <<>>
    /\ pass = 1
    /\ i = 1
    /\ detailedResources = <<>>
    /\ requests = <<>>
    /\ fsOps = <<>>
    /\ fsDone = {}
    /\ errors = <<>>
    /\ thrown = Undefined
    /\ promise = "pending"

SpecSynth == InitSynth /\ [][Next]_vars

(***************************************************************************)
(* Vocabulary of the properties.                                           *)
(***************************************************************************)
\* listStackResources(root) has returned its list to process()
Enumerated == frames = <<>>

\* the items the service lists for a stack, page after page
RECURSIVE Flatten(_)
Flatten(pages) == IF pages = <<>> THEN <<>> ELSE pages[1] \o Flatten(Tail(pages))

\* the stacks a set of stacks names in its listings
NamedBy(stacks) ==
    { SplitAt(item.PhysicalResourceId, "/", 1) :
        item \in { it \in UNION { Range(Flatten(listing[st])) : st \in stacks } :
                     it.ResourceType = StackType } }

\* the stacks reachable from the root through nested stack entries
RECURSIVE ReachableFrom(_)
ReachableFrom(stacks) ==
    LET more == stacks \cup (NamedBy(stacks) \cap DOMAIN listing)
    IN  IF more = stacks THEN stacks ELSE ReachableFrom(more)

ReachableStacks == ReachableFrom({RootStack})

\* the root stack has no nested stack
SingleStack == NamedBy({RootStack}) = {}

\* the listing requests issued so far
ListRequests ==
    LET IsList(r) == r.operation = "listStackResources"
    IN  Filter(requests, { e \in Range(requests) : IsList(e) })

(***************************************************************************)
(* C1.  The list listStackResources(root) returns holds no two entries     *)
(* with the same (ResourceType, PhysicalResourceId) pair, at any nesting   *)
(* depth.  The code appends the list of a nested stack, which already      *)
(* holds the items of the stacks nested in it, and then visits the         *)
(* appended stack entries again: the statement fails at depth two.         *)
(***************************************************************************)
C1_NoDuplicateResources ==
    Enumerated =>
        \A a, b \in 1..Len(resources) :
            (/\ resources[a].ResourceType = resources[b].ResourceType
             /\ resources[a].PhysicalResourceId = resources[b].PhysicalResourceId)
                => a = b

(***************************************************************************)
(* C2.  Once listStackResources(root) has returned, every item of every    *)
(* page of every stack reachable from the root through nested stack        *)
(* entries (named by the second '/' segment of the entry's physical id) is *)
(* in the returned list.                                                   *)
(***************************************************************************)
C2_EveryReachableItemListed ==
    Enumerated =>
        \A st \in ReachableStacks :
            \A k \in 1..Len(listing[st]) :
                Range(listing[st][k]) \subseteq Range(resources)

\* a stack nested in a nested stack, served in several pages, was enumerated
C2_Witness ==
    /\ Enumerated
    /\ StackB \in ReachableStacks
    /\ Len(listing[StackA]) > 1
    /\ Idp1 \in Range(resources)
    /\ Cl1 \in Range(resources)

(***************************************************************************)
(* C3.  For a single stack served in n >= 1 pages: at most n listing       *)
(* requests are issued, the first without a token, the k-th with the       *)
(* NextToken page k-1 returned; the list is returned only after the n-th,  *)
(* page without NextToken, and is the items of the n pages in page order;  *)
(* nothing is described or written before that.                            *)
(***************************************************************************)
C3_PaginationFollowed ==
    SingleStack =>
        LET n == Len(listing[RootStack])
            reqs == ListRequests
        IN  /\ Len(reqs) <= n
            /\ \A k \in 1..Len(reqs) :
                  /\ reqs[k].parameters.StackName = RootStack
                  /\ k = 1 => ~HasOwnProperty(reqs[k].parameters, "NextToken")
                  /\ k > 1 =>
                        /\ HasOwnProperty(reqs[k].parameters, "NextToken")
                        /\ reqs[k - 1].outcome = "resolved"
                        /\ reqs[k].parameters.NextToken =
                               ListResponse(reqs[k - 1].parameters).NextToken
                        /\ reqs[k].parameters.NextToken # NoToken
            /\ Enumerated =>
                  /\ Len(reqs) = n
                  /\ ListResponse(reqs[n].parameters).NextToken = NoToken
                  /\ resources = Flatten(listing[RootStack])
            /\ ~Enumerated =>
                  /\ resources = <<>>
                  /\ detailedResources = <<>>
                  /\ fsOps = <<>>
                  /\ Len(requests) = Len(reqs)

\* a stack of several pages was listed to its end
C3_Witness ==
    /\ SingleStack
    /\ Enumerated
    /\ Len(listing[RootStack]) >= 3
    /\ Len(ListRequests) = Len(listing[RootStack])
    /\ Len(resources) >= 3

(***************************************************************************)
(* C4.  If a stack-listing request fails, for the root stack or a nested   *)
(* one, nothing follows: no describe request is issued, no directive is    *)
(* processed, no file-system operation is issued and no list, partial or   *)
(* not, reaches describeStackResources.                                    *)
(***************************************************************************)
ListingFailed ==
    \E k \in 1..Len(requests) :
        /\ requests[k].operation = "listStackResources"
        /\ requests[k].outcome = "rejected"

C4_ListingFailureStopsPipeline ==
    ListingFailed =>
        /\ \A k \in 1..Len(requests) : requests[k].api = "CloudFormation"
        /\ requests[Len(requests)].outcome = "rejected"
        /\ resources = <<>>
        /\ detailedResources = <<>>
        /\ fsOps = <<>>
        /\ pc \in {"rejected", "done"}
        /\ pass = 1 /\ i = 1

\* the listing of a nested stack failed after items had been listed, with
\* directives waiting, and the chain has ended
C4_Witness ==
    /\ ListingFailed
    /\ pc = "done"
    /\ Len(frames) >= 2
    /\ frames[1].resources # <<>>
    /\ Len(config) >= 1
    /\ config[1] = [type |-> "native", filename |-> <<"awsconfiguration", ".", "json">>]

(***************************************************************************)
(* C5.  If a describe request fails, or the introspection schema is not    *)
(* JSON, no record list is returned, no directive is processed and no      *)
(* file-system operation is issued.                                        *)
(***************************************************************************)
DescribeFailed ==
    \E k \in 1..Len(requests) :
        /\ requests[k].api # "CloudFormation"
        /\ \/ requests[k].outcome = "rejected"
           \/ /\ HasOwnProperty(requests[k], "schema")
              /\ JSONParse(requests[k].schema) = SyntaxError

C5_DescribeFailureNoOutput ==
    DescribeFailed =>
        /\ fsOps = <<>>
        /\ pc \in {"rejected", "done"}
        /\ thrown # Undefined
        /\ fsDone = {}

\* a describe request failed in a run whose first directive is well formed
C5_Witness ==
    /\ DescribeFailed
    /\ pc = "done"
    /\ detailedResources # <<>>
    /\ Len(config) >= 1
    /\ config[1] = [type |-> "native", filename |-> <<"awsconfiguration", ".", "json">>]

(***************************************************************************)
(* C6.  A user pool client whose template entry refers to the logical id   *)
(* of an enumerated user pool is described, when the second loop comes to  *)
(* it, with its own physical id as ClientId and the physical id of that    *)
(* pool as UserPoolId; no describeUserPoolClient request carries any other *)
(* pair.  Where pools of two stacks share the logical id, it is one of     *)
(* them.                                                                   *)
(***************************************************************************)
\* the enumerated user pools the template entry of a client refers to
ParentPools(client) ==
    { r \in Range(resources) :
        /\ r.ResourceType = UserPoolType
        /\ client.LogicalResourceId \in DOMAIN CompiledTemplate
        /\ r.LogicalResourceId = CompiledTemplate[client.LogicalResourceId] }

ClientRequests ==
    LET IsClient(r) == r.operation = "describeUserPoolClient"
    IN  Range(Filter(requests, { e \in Range(requests) : IsClient(e) }))

\* the second loop has passed position k
SecondLoopPassed(k) ==
    \/ pc = "describe" /\ pass = 2 /\ i > k
    \/ pc = "write"

C6_ClientDescribedWithItsPool ==
    /\ \A k \in 1..Len(resources) :
          (/\ resources[k].ResourceType = ClientType
           /\ ParentPools(resources[k]) # {}
           /\ SecondLoopPassed(k))
             => \E r \in ClientRequests :
                   /\ r.parameters.ClientId = resources[k].PhysicalResourceId
                   /\ \E pool \in ParentPools(resources[k]) :
                         r.parameters.UserPoolId = pool.PhysicalResourceId
    /\ \A r \in ClientRequests :
          \E k \in 1..Len(resources) :
              /\ resources[k].ResourceType = ClientType
              /\ r.parameters.ClientId = resources[k].PhysicalResourceId
              /\ \E pool \in ParentPools(resources[k]) :
                    r.parameters.UserPoolId = pool.PhysicalResourceId

\* two clients of two different pools were described
C6_Witness ==
    /\ pc = "write"
    /\ \E r1, r2 \in ClientRequests :
          /\ r1.parameters.ClientId = Cl1.PhysicalResourceId
          /\ r1.parameters.UserPoolId = Up1.PhysicalResourceId
          /\ r2.parameters.ClientId = Cl2.PhysicalResourceId
          /\ r2.parameters.UserPoolId = Up2.PhysicalResourceId

(***************************************************************************)
(* C7.  When an enumerated user pool client resolves to no parent pool     *)
(* (no template entry, or a reference to a pool that was not enumerated),  *)
(* the directives that do not name that client are still synthesized and   *)
(* written.  The code throws a TypeError in describeStackResources, which  *)
(* rejects the chain before any directive is processed.                    *)
(***************************************************************************)
UnresolvedClients ==
    { r \in Range(resources) : r.ResourceType = ClientType /\ ParentPools(r) = {} }

\* a well-formed configuration directive that names no app client
NamesNoClient(fileDetails) ==
    /\ HasOwnProperty(fileDetails, "type")
    /\ HasOwnProperty(fileDetails, "filename")
    /\ ToLowerCase(fileDetails.type) \in {"native", "javascript", "typescript"}
    /\ ~HasOwnProperty(fileDetails, "appClient")

C7_UnresolvedClientScoped ==
    (/\ pc = "done"
     /\ Enumerated
     /\ UnresolvedClients # {}
     /\ \A k \in 1..Len(requests) : requests[k].outcome = "resolved"
     /\ \A k \in 1..Len(requests) :
           HasOwnProperty(requests[k], "schema")
               => JSONParse(requests[k].schema) # SyntaxError)
        => \A k \in 1..Len(config) :
              (\A m \in 1..k : NamesNoClient(config[m]))
                  => \E op \in Range(fsOps) :
                        op.op = "writeFile" /\ op.filename = config[k].filename

(***************************************************************************)
(* Vocabulary of the synthesis properties.                                 *)
(***************************************************************************)
ConfigurationTypes == {"native", "javascript", "typescript"}

\* a well-formed directive of one of the three configuration formats
IsConfiguration(fileDetails) ==
    /\ HasOwnProperty(fileDetails, "type")
    /\ HasOwnProperty(fileDetails, "filename")
    /\ ToLowerCase(fileDetails.type) \in ConfigurationTypes

\* the fs.writeFile operations issued for a directive
WritesFor(fileDetails) ==
    { op \in Range(fsOps) : op.op = "writeFile" /\ op.filename = fileDetails.filename }

\* the operations of any kind that produce the file of a directive
OutputsFor(fileDetails) ==
    { op \in Range(fsOps) : op.filename = fileDetails.filename }

\* the identity pool id a written configuration carries, Undefined if none
WrittenIdentityPool(contents) ==
    IF HasOwnProperty(contents, "json")
    THEN IF HasOwnProperty(contents.json, "CredentialsProvider")
         THEN contents.json.CredentialsProvider.CognitoIdentity.Default.PoolId
         ELSE Undefined
    ELSE IF HasOwnProperty(contents.awsmobile, "aws_cognito_identity_pool_id")
         THEN contents.awsmobile.aws_cognito_identity_pool_id
         ELSE Undefined

\* the identity pools in enumeration order
EnumeratedIdentityPools ==
    LET IsPool(r) == r.ResourceType = IdentityPoolType
    IN  Filter(resources, { e \in Range(resources) : IsPool(e) })

\* the ClientId of the enumerated clients with a logical id
ClientIdsNamed(name) ==
    { r.PhysicalResourceId :
        r \in { c \in Range(resources) :
                  c.ResourceType = ClientType /\ c.LogicalResourceId = name } }

\* the service lists one of the client ids among the providers of the pool
FederatesOneOf(pool, clientIds) ==
    LET described == IdentityPoolResponse(pool.PhysicalResourceId)
    IN  /\ HasOwnProperty(described, "CognitoIdentityProviders")
        /\ \E e \in Range(described.CognitoIdentityProviders) : e.ClientId \in clientIds

\* the physical id of the pool the claim selects for a directive
ExpectedIdentityPool(fileDetails) ==
    LET Federating(pool) ==
            /\ HasOwnProperty(fileDetails, "appClient")
            /\ FederatesOneOf(pool, ClientIdsNamed(fileDetails.appClient))
        federating == Filter(EnumeratedIdentityPools,
                             { e \in Range(EnumeratedIdentityPools) : Federating(e) })
    IN  IF federating # <<>> THEN federating[1].PhysicalResourceId
        ELSE IF EnumeratedIdentityPools # <<>>
             THEN EnumeratedIdentityPools[1].PhysicalResourceId
             ELSE Undefined

(***************************************************************************)
(* C8.  The identity pool of a native, javascript or typescript output is  *)
(* the first pool in enumeration order that federates the named app        *)
(* client; without such a pool, or without a named client, it is the first *)
(* pool in enumeration order.                                              *)
(***************************************************************************)
C8_IdentityPoolSelection ==
    \A k \in 1..Len(config) :
        IsConfiguration(config[k]) =>
            \A op \in WritesFor(config[k]) :
                WrittenIdentityPool(op.contents) = ExpectedIdentityPool(config[k])

\* of two pools only the second federates the named client, and a native
\* file carrying the second was written
C8_Witness ==
    /\ Len(config) = 1
    /\ config[1].type = "native"
    /\ HasOwnProperty(config[1], "appClient")
    /\ config[1].appClient = "WebClient"
    /\ Len(EnumeratedIdentityPools) = 2
    /\ EnumeratedIdentityPools[1] = Idp1
    /\ EnumeratedIdentityPools[2] = Idp2
    /\ \E op \in WritesFor(config[1]) :
          WrittenIdentityPool(op.contents) = Idp2.PhysicalResourceId

(***************************************************************************)
(* C9.  As claimed: a directive of any type whose appClient is not the     *)
(* logical id of a described user pool client produces no file.  The       *)
(* schema.json, graphql and appsync writers never read appClient.          *)
(***************************************************************************)
DescribedClients ==
    { r.LogicalResourceId :
        r \in { c \in Range(detailedResources) : c.ResourceType = ClientType } }

\* a well-formed directive naming an app client that was not described
NamesUnknownClient(fileDetails) ==
    /\ HasOwnProperty(fileDetails, "type")
    /\ HasOwnProperty(fileDetails, "filename")
    /\ HasOwnProperty(fileDetails, "appClient")
    /\ fileDetails.appClient \notin DescribedClients

C9_UnknownClientFailsAnyType ==
    \A k \in 1..Len(config) :
        NamesUnknownClient(config[k]) => OutputsFor(config[k]) = {}

(***************************************************************************)
(* C9, amended.  A native, javascript or typescript directive whose        *)
(* appClient is not the logical id of a described user pool client         *)
(* produces no file, the loop never passes it, and the error it ends with  *)
(* is 'Invalid appClient specified' naming that client.                    *)
(***************************************************************************)
C9_UnknownClientFailsConfiguration ==
    /\ \A k \in 1..Len(config) :
          (NamesUnknownClient(config[k]) /\ IsConfiguration(config[k]))
              => /\ OutputsFor(config[k]) = {}
                 /\ pc = "write" => i <= k
    /\ thrown[1] = "Invalid appClient specified"
          => /\ i <= Len(config)
             /\ NamesUnknownClient(config[i]) /\ IsConfiguration(config[i])
             /\ thrown = <<"Invalid appClient specified", config[i].appClient>>

\* the javascript directive naming an unknown client was reached after a
\* first file was written, and failed
C9_Witness ==
    /\ pc = "done"
    /\ thrown = <<"Invalid appClient specified", "NoSuchClient">>
    /\ i = 2
    /\ config[2].type = "javascript"
    /\ Len(fsOps) = 1
    /\ Cl1 \in Range(resources)

(***************************************************************************)
(* C10.  A native, javascript or typescript output written for a directive *)
(* with s3bucket = "disabled" has no storage section, whatever the logical *)
(* ids of the buckets.  The code looks "disabled" up as a logical id like  *)
(* any other name, and finds the bucket that has it.                       *)
(***************************************************************************)
StorageKeys ==
    {"S3TransferUtility", "aws_user_files_s3_bucket", "aws_user_files_s3_bucket_region"}

\* the top-level keys of a written configuration
WrittenKeys(contents) ==
    IF HasOwnProperty(contents, "json")
    THEN DOMAIN contents.json
    ELSE DOMAIN contents.awsmobile

C10_DisabledBucketNoStorage ==
    \A k \in 1..Len(config) :
        (/\ IsConfiguration(config[k])
         /\ HasOwnProperty(config[k], "s3bucket")
         /\ config[k].s3bucket = "disabled")
            => \A op \in WritesFor(config[k]) :
                  WrittenKeys(op.contents) \cap StorageKeys = {}

(***************************************************************************)
(* Vocabulary of the storage properties.                                   *)
(***************************************************************************)
\* the enumerated buckets other than the deployment bucket, in order
EnumeratedUserBuckets ==
    LET IsUserBucket(r) == r.ResourceType = BucketType
                           /\ r.LogicalResourceId # "ServerlessDeploymentBucket"
    IN  Filter(resources, { e \in Range(resources) : IsUserBucket(e) })

\* the physical ids of the enumerated deployment buckets
DeploymentBucketIds ==
    { r.PhysicalResourceId :
        r \in { b \in Range(resources) :
                  b.ResourceType = BucketType
                  /\ b.LogicalResourceId = "ServerlessDeploymentBucket" } }

\* the bucket a written configuration carries, Undefined if none
WrittenBucket(contents) ==
    IF HasOwnProperty(contents, "json")
    THEN IF HasOwnProperty(contents.json, "S3TransferUtility")
         THEN contents.json.S3TransferUtility.Default.Bucket
         ELSE Undefined
    ELSE IF HasOwnProperty(contents.awsmobile, "aws_user_files_s3_bucket")
         THEN contents.awsmobile.aws_user_files_s3_bucket
         ELSE Undefined

\* the messages of the errors writeConfigurationFiles raises
DirectiveErrors ==
    {"Invalid Amplify configuration type directive",
     "Invalid Amplify configuration directive",
     "Invalid appClient specified",
     "No GraphQL API found - cannot write schema.json file",
     "No GraphQL API found - cannot write file"}

\* a configuration directive naming a bucket, other than "disabled", that
\* is the logical id of no enumerated bucket but the deployment bucket
NamesUnknownBucket(fileDetails) ==
    /\ IsConfiguration(fileDetails)
    /\ HasOwnProperty(fileDetails, "s3bucket")
    /\ fileDetails.s3bucket # "disabled"
    /\ \A b \in Range(EnumeratedUserBuckets) :
          b.LogicalResourceId # fileDetails.s3bucket

(***************************************************************************)
(* C11.  A native, javascript or typescript directive whose s3bucket,      *)
(* other than "disabled", is the logical id of no enumerated non-          *)
(* deployment bucket fails and no file is written for it.  The code has no *)
(* such failure: find returns undefined and the file is written without    *)
(* storage section.                                                        *)
(***************************************************************************)
C11_UnknownBucketFails ==
    \A k \in 1..Len(config) :
        (Enumerated /\ NamesUnknownBucket(config[k])) => WritesFor(config[k]) = {}

(***************************************************************************)
(* C11, amended.  A native, javascript or typescript directive whose       *)
(* s3bucket, other than "disabled", is the logical id of no enumerated     *)
(* non-deployment bucket raises no error for it: once the loop has passed  *)
(* the directive its file is written, without storage section.             *)
(***************************************************************************)
C11_UnknownBucketNoStorage ==
    \A k \in 1..Len(config) :
        (Enumerated /\ NamesUnknownBucket(config[k]))
            => /\ \A op \in WritesFor(config[k]) :
                     WrittenKeys(op.contents) \cap StorageKeys = {}
               /\ (pc = "write" /\ i > k) => WritesFor(config[k]) # {}
               /\ thrown[1] \in DirectiveErrors
                     => thrown[1] = "Invalid appClient specified"

\* two buckets other than the one named are deployed and the file of the
\* directive was written
C11_Witness ==
    /\ Len(config) = 1
    /\ NamesUnknownBucket(config[1])
    /\ config[1].s3bucket = "NoSuchBucket"
    /\ Len(EnumeratedUserBuckets) = 2
    /\ pc = "done"
    /\ thrown = Undefined
    /\ WritesFor(config[1]) # {}

(***************************************************************************)
(* C12.  For a native, javascript or typescript directive without s3bucket *)
(* the storage section of the file written names the first enumerated      *)
(* bucket whose logical id is not ServerlessDeploymentBucket; without such *)
(* a bucket the file has no storage section.                               *)
(***************************************************************************)
C12_DefaultBucketIsFirstUserBucket ==
    \A k \in 1..Len(config) :
        (IsConfiguration(config[k]) /\ ~HasOwnProperty(config[k], "s3bucket"))
            => \A op \in WritesFor(config[k]) :
                  /\ WrittenBucket(op.contents) =
                         IF EnumeratedUserBuckets # <<>>
                         THEN EnumeratedUserBuckets[1].PhysicalResourceId
                         ELSE Undefined
                  /\ WrittenBucket(op.contents) = Undefined
                         => WrittenKeys(op.contents) \cap StorageKeys = {}

\* the deployment bucket is enumerated first, two other buckets follow, and
\* a file naming the first of the two was written for a directive without
\* s3bucket
C12_Witness ==
    /\ Len(config) = 1
    /\ IsConfiguration(config[1])
    /\ ~HasOwnProperty(config[1], "s3bucket")
    /\ Len(resources) >= 3
    /\ resources[Len(resources) - 2] = BktDeploy
    /\ resources[Len(resources) - 1] = BktUploads
    /\ resources[Len(resources)] = BktMedia
    /\ \E op \in WritesFor(config[1]) :
          WrittenBucket(op.contents) = BktUploads.PhysicalResourceId

(***************************************************************************)
(* C13.  Whatever the directive, also one whose s3bucket is                *)
(* ServerlessDeploymentBucket, no native, javascript or typescript file    *)
(* written carries the physical id of the deployment bucket.               *)
(***************************************************************************)
C13_DeploymentBucketNeverWritten ==
    \A k \in 1..Len(config) :
        IsConfiguration(config[k]) =>
            \A op \in WritesFor(config[k]) :
                WrittenBucket(op.contents) \notin DeploymentBucketIds

\* a directive naming ServerlessDeploymentBucket was written while the
\* deployment bucket and other buckets are deployed
C13_Witness ==
    /\ Len(config) = 1
    /\ IsConfiguration(config[1])
    /\ HasOwnProperty(config[1], "s3bucket")
    /\ config[1].s3bucket = "ServerlessDeploymentBucket"
    /\ BktDeploy \in Range(resources)
    /\ BktUploads \in Range(resources)
    /\ WritesFor(config[1]) # {}

(***************************************************************************)
(* Vocabulary of the failure properties.                                   *)
(***************************************************************************)
KnownTypes ==
    {"native", "javascript", "typescript", "schema.json", "graphql", "appsync"}

\* a directive without type, without filename, or of no known type
Malformed(fileDetails) ==
    \/ ~HasOwnProperty(fileDetails, "type")
    \/ ~HasOwnProperty(fileDetails, "filename")
    \/ ToLowerCase(fileDetails.type) \notin KnownTypes

\* the message of the error a malformed directive is to raise
InvalidDirectiveError(fileDetails) ==
    IF HasOwnProperty(fileDetails, "type") /\ HasOwnProperty(fileDetails, "filename")
    THEN "Invalid Amplify configuration type directive"
    ELSE "Invalid Amplify configuration directive"

\* the operations issued that produce the file called filename
Produced(filename) == { p \in 1..Len(fsOps) : fsOps[p].filename = filename }

\* the directives before position k whose output file is called filename
RequestedBefore(k, filename) ==
    { m \in 1..(k - 1) :
        HasOwnProperty(config[m], "filename") /\ config[m].filename = filename }

(***************************************************************************)
(* C14.  When the loop of writeConfigurationFiles comes to a directive     *)
(* without type, without filename or of a type that, in lower case, is     *)
(* none of the six known, it raises the invalid-directive error there and  *)
(* issues nothing for it; once the chain has failed the loop index stays   *)
(* and no operation is issued any more, so that no later directive is      *)
(* synthesized or written.                                                 *)
(***************************************************************************)
C14_InvalidDirectiveAborts ==
    [][ /\ (pc = "write" /\ i <= Len(config) /\ Malformed(config[i]))
            => /\ pc' = "rejected"
               /\ thrown' = <<InvalidDirectiveError(config[i])>>
               /\ <<InvalidDirectiveError(config[i])>> \in Range(errors')
               /\ fsOps' = fsOps
               /\ i' = i
        /\ pc \in {"rejected", "done"}
            => /\ pc' # "write"
               /\ fsOps' = fsOps
               /\ i' = i ]_vars

\* the first of two directives is malformed, the second is a well-formed
\* native directive without app client; the run is over and nothing was
\* issued
C14_Witness ==
    /\ pc = "done"
    /\ i = 1
    /\ Len(config) = 2
    /\ Malformed(config[1])
    /\ thrown = <<InvalidDirectiveError(config[1])>>
    /\ ~Malformed(config[2])
    /\ config[2].type = "native"
    /\ ~HasOwnProperty(config[2], "appClient")
    /\ fsOps = <<>>

(***************************************************************************)
(* C15.  As claimed: a run in which a directive fails has issued no file   *)
(* operation at all, also none for the directives before the failing one.  *)
(* The loop is sequential: the directives before the failing one have had  *)
(* their operations issued when it throws.                                 *)
(***************************************************************************)
C15_NoPartialOutput ==
    thrown[1] \in DirectiveErrors => fsOps = <<>>

(***************************************************************************)
(* C15, amended.  A run in which the directive at position i fails has     *)
(* issued no operation for that directive or a later one, and has issued   *)
(* the output of every directive before it: each output file was produced  *)
(* as many times as the directives before position i ask for it.           *)
(***************************************************************************)
C15_OutputUpToFailure ==
    thrown[1] \in DirectiveErrors
        => /\ i <= Len(config)
           /\ \A j \in 1..Len(config) :
                 HasOwnProperty(config[j], "filename")
                     => Cardinality(Produced(config[j].filename))
                            = Cardinality(RequestedBefore(i, config[j].filename))

\* the second directive is of an unknown type and the file of the first
\* was issued before it failed
C15_Witness ==
    /\ pc = "done"
    /\ i = 2
    /\ thrown = <<"Invalid Amplify configuration type directive">>
    /\ Len(fsOps) = 1
    /\ fsOps[1].op = "writeFile"
    /\ fsOps[1].filename = config[1].filename

(***************************************************************************)
(* C16.  As claimed: when a stage has failed, the promise process()        *)
(* returns is rejected.  The chain of process() ends with a catch that     *)
(* logs the error and returns, so the promise resolves.                    *)
(***************************************************************************)
C16_FailureRejectsPromise ==
    (pc = "done" /\ thrown # Undefined) => promise = "rejected"

(***************************************************************************)
(* C16, amended.  When a stage has failed, no request and no file          *)
(* operation is issued any more, process() logs 'Cannot load resources'    *)
(* with the error at level error, and the promise it returns is never      *)
(* rejected: it resolves once the error is logged.                         *)
(***************************************************************************)
C16_FailureLoggedPromiseResolves ==
    /\ [](/\ promise # "rejected"
          /\ (pc = "done" /\ thrown # Undefined)
                => /\ promise = "resolved"
                   /\ <<"Cannot load resources", thrown>> \in Range(errors))
    /\ [][thrown # Undefined
            => /\ requests' = requests
               /\ fsOps' = fsOps
               /\ thrown' = thrown]_vars

\* the listing of a nested stack failed after requests that succeeded; the
\* error is logged and the promise resolved
C16_Witness ==
    /\ pc = "done"
    /\ promise = "resolved"
    /\ thrown = <<"listStackResources", "failed">>
    /\ Len(requests) >= 2
    /\ errors = << <<"Cannot load resources", thrown>> >>

SchemaTypes == {"schema.json", "graphql", "appsync"}

\* a well-formed schema.json, graphql or appsync directive
IsSchemaDirective(fileDetails) ==
    /\ HasOwnProperty(fileDetails, "type")
    /\ HasOwnProperty(fileDetails, "filename")
    /\ ToLowerCase(fileDetails.type) \in SchemaTypes

\* the GraphQL APIs in enumeration order
EnumeratedApis ==
    LET IsApi(r) == r.ResourceType = GraphQLApiType
    IN  Filter(resources, { e \in Range(resources) : IsApi(e) })

\* the error a schema directive is to raise without GraphQL API
NoApiError(fileDetails) ==
    IF ToLowerCase(fileDetails.type) = "schema.json"
    THEN <<"No GraphQL API found - cannot write schema.json file">>
    ELSE <<"No GraphQL API found - cannot write file", fileDetails.filename>>

\* the schema document of an API as the service serves it: the third part
\* of the physical id is the API id
SchemaOf(api) == <<"{", "__schema", api.PhysicalResourceId[3], "}">>

\* the operations that write a schema, call the operation synthesizer or
\* call the client code generator
GeneratorOps == {"writeFileSync", "graphqlGenerator", "apiGenerator.generate"}

(***************************************************************************)
(* C18.  For a schema.json, graphql or appsync directive: when no GraphQL  *)
(* API is enumerated the directive throws 'No GraphQL API found' and       *)
(* nothing is produced, neither its file nor a temporary schema nor a      *)
(* generator call; when one is enumerated, every schema written, to the    *)
(* output file or to the temporary file the generators read, is the schema *)
(* of the first API in enumeration order, and the output is produced.      *)
(***************************************************************************)
C18_SchemaNeedsFirstApi ==
    /\ [](\A k \in 1..Len(config) :
             (Enumerated /\ IsSchemaDirective(config[k]))
                 => /\ EnumeratedApis = <<>>
                        => /\ OutputsFor(config[k]) = {}
                           /\ \A op \in Range(fsOps) : op.op \notin GeneratorOps
                           /\ pc = "write" => i <= k
                    /\ EnumeratedApis # <<>>
                        => /\ \A op \in Range(fsOps) :
                                 (\/ op.op = "writeFileSync"
                                  \/ op \in WritesFor(config[k]))
                                     => op.contents = SchemaOf(EnumeratedApis[1])
                           /\ (pc = "write" /\ i > k) => OutputsFor(config[k]) # {})
    /\ [][(/\ pc = "write"
           /\ i <= Len(config)
           /\ IsSchemaDirective(config[i])
           /\ EnumeratedApis = <<>>)
            => /\ pc' = "rejected"
               /\ thrown' = NoApiError(config[i])
               /\ fsOps' = fsOps]_vars

\* an appsync directive failed on a stack that has resources but no
\* GraphQL API; nothing was produced
C18_Witness ==
    /\ pc = "done"
    /\ Len(config) = 1
    /\ IsSchemaDirective(config[1])
    /\ config[1].type = "appsync"
    /\ thrown = NoApiError(config[1])
    /\ Len(resources) >= 2
    /\ fsOps = <<>>

(***************************************************************************)
(* Vocabulary of the native output.                                        *)
(***************************************************************************)
NativeKeys ==
    {"UserAgent", "Version", "CognitoUserPool", "CredentialsProvider", "AppSync",
     "S3TransferUtility", "APIGateway", "GoogleSignin", "FacebookSignin",
     "AmazonSignin"}

\* a well-formed native directive
IsNative(fileDetails) ==
    IsConfiguration(fileDetails) /\ ToLowerCase(fileDetails.type) = "native"

\* the enumeration holds a bucket the directive selects
BucketSelected(fileDetails) ==
    IF HasOwnProperty(fileDetails, "s3bucket")
    THEN \E b \in Range(EnumeratedUserBuckets) :
            b.LogicalResourceId = fileDetails.s3bucket
    ELSE EnumeratedUserBuckets # <<>>

(***************************************************************************)
(* C19.  The top-level keys of every native file written are among the ten *)
(* of the format, UserAgent and Version are always there, and each of      *)
(* CognitoUserPool, CredentialsProvider, AppSync, S3TransferUtility and    *)
(* APIGateway is there exactly when the directive names an app client, an  *)
(* identity pool is enumerated, a GraphQL API is enumerated, a bucket is    *)
(* selected, a REST API is enumerated.                                     *)
(***************************************************************************)
C19_NativeKeySet ==
    \A k \in 1..Len(config) :
        IsNative(config[k]) =>
            \A op \in WritesFor(config[k]) :
                LET keys == DOMAIN op.contents.json
                IN  /\ keys \subseteq NativeKeys
                    /\ {"UserAgent", "Version"} \subseteq keys
                    /\ "CognitoUserPool" \in keys
                           <=> HasOwnProperty(config[k], "appClient")
                    /\ "CredentialsProvider" \in keys
                           <=> EnumeratedIdentityPools # <<>>
                    /\ "AppSync" \in keys <=> EnumeratedApis # <<>>
                    /\ "S3TransferUtility" \in keys <=> BucketSelected(config[k])
                    /\ "APIGateway" \in keys
                           <=> \E r \in Range(resources) : r.ResourceType = RestApiType

\* a native file with every section but two of the sign-in sections
C19_Witness ==
    /\ Len(config) = 1
    /\ IsNative(config[1])
    /\ \E op \in WritesFor(config[1]) :
          DOMAIN op.contents.json = NativeKeys \ {"FacebookSignin", "AmazonSignin"}

(***************************************************************************)
(* Vocabulary of the federation properties.                                *)
(***************************************************************************)
\* the SupportedLoginProviders the service reports for the identity pool a
\* written configuration carries
SelectedProviders(contents) ==
    IF WrittenIdentityPool(contents) = Undefined
    THEN Empty
    ELSE LET described == IdentityPoolResponse(WrittenIdentityPool(contents))
         IN  IF HasOwnProperty(described, "SupportedLoginProviders")
             THEN described.SupportedLoginProviders
             ELSE Empty

KnownProviders == {"accounts.google.com", "graph.facebook.com", "www.amazon.com"}

(***************************************************************************)
(* C20.  A native file written has GoogleSignin, FacebookSignin and        *)
(* AmazonSignin exactly when the provider map of the identity pool it      *)
(* carries has the key accounts.google.com, graph.facebook.com and         *)
(* www.amazon.com, each section with the value of its key, and no section  *)
(* for any other key; a javascript or typescript file written has the      *)
(* federated object exactly when the map has one of the three keys, with   *)
(* one entry for each of the three that is there.                          *)
(***************************************************************************)
C20_FederatedProviders ==
    \A k \in 1..Len(config) :
        IsConfiguration(config[k]) =>
            \A op \in WritesFor(config[k]) :
                LET providers == SelectedProviders(op.contents)
                    names == DOMAIN providers
                IN  IF HasOwnProperty(op.contents, "json")
                    THEN LET json == op.contents.json
                         IN  /\ DOMAIN json \subseteq NativeKeys
                             /\ "GoogleSignin" \in DOMAIN json
                                    <=> "accounts.google.com" \in names
                             /\ "GoogleSignin" \in DOMAIN json
                                    => json.GoogleSignin["ClientId-WebApp"]
                                           = providers["accounts.google.com"]
                             /\ "FacebookSignin" \in DOMAIN json
                                    <=> "graph.facebook.com" \in names
                             /\ "FacebookSignin" \in DOMAIN json
                                    => json.FacebookSignin.AppId
                                           = providers["graph.facebook.com"]
                             /\ "AmazonSignin" \in DOMAIN json
                                    <=> "www.amazon.com" \in names
                             /\ "AmazonSignin" \in DOMAIN json
                                    => json.AmazonSignin.ClientId
                                           = providers["www.amazon.com"]
                    ELSE LET awsmobile == op.contents.awsmobile
                         IN  /\ "federated" \in DOMAIN awsmobile
                                    <=> names \cap KnownProviders # {}
                             /\ "federated" \in DOMAIN awsmobile
                                    => LET federated == awsmobile.federated
                                       IN  /\ "google_client_id" \in DOMAIN federated
                                               <=> "accounts.google.com" \in names
                                           /\ "facebook_app_id" \in DOMAIN federated
                                               <=> "graph.facebook.com" \in names
                                           /\ "amazon_client_id" \in DOMAIN federated
                                               <=> "www.amazon.com" \in names
                                           /\ DOMAIN federated \subseteq
                                                  {"google_client_id", "facebook_app_id",
                                                   "amazon_client_id"}

\* the pool selected reports facebook, amazon and a provider the plugin
\* does not know; the native file has the two sections and no third
C20_Witness ==
    /\ Len(config) = 1
    /\ IsNative(config[1])
    /\ \E op \in WritesFor(config[1]) :
          /\ WrittenIdentityPool(op.contents) = Idp3.PhysicalResourceId
          /\ "api.twitter.com" \in DOMAIN SelectedProviders(op.contents)
          /\ "FacebookSignin" \in DOMAIN op.contents.json
          /\ "AmazonSignin" \in DOMAIN op.contents.json
          /\ "GoogleSignin" \notin DOMAIN op.contents.json

(***************************************************************************)
(* Vocabulary of the description properties.                               *)
(***************************************************************************)
\* the types describeStackResources keeps a record of
DescribedTypes ==
    {GraphQLApiType, IdentityPoolType, UserPoolType, ClientType, BucketType,
     RestApiType}

\* the summary a record was built from
SummaryOf(record) ==
    Summary(record.ResourceType, record.LogicalResourceId, record.PhysicalResourceId)

\* the positions of list s that hold summary x, or a record built from it
Holding(s, x) == { p \in 1..Len(s) : SummaryOf(s[p]) = x }

(***************************************************************************)
(* C21.  The list describeStackResources returns holds, for every summary  *)
(* of the enumeration whose type is GraphQL API, identity pool, user pool, *)
(* user-pool client, S3 bucket or REST API, as many records as the         *)
(* enumeration holds that summary, and no record of any other summary:     *)
(* nested-stack entries and other types are dropped, and dropping them     *)
(* raises no error.                                                        *)
(***************************************************************************)
C21_OneRecordPerDescribedSummary ==
    pc = "write" =>
        /\ \A p \in 1..Len(detailedResources) :
              /\ detailedResources[p].ResourceType \in DescribedTypes
              /\ SummaryOf(detailedResources[p]) \in Range(resources)
        /\ \A x \in Range(resources) :
              x.ResourceType \in DescribedTypes
                  => Cardinality(Holding(detailedResources, x))
                         = Cardinality(Holding(resources, x))
        /\ (i = 1 /\ fsOps = <<>>) => (thrown = Undefined /\ errors = <<>>)

\* a nested-stack entry was enumerated next to a client and other resources
\* of the six types; the list is returned, shorter than the enumeration
C21_Witness ==
    /\ pc = "write"
    /\ i = 1
    /\ \E x \in Range(resources) : x.ResourceType = StackType
    /\ \E x \in Range(resources) : x.ResourceType = ClientType
    /\ Len(detailedResources) >= 3
    /\ Len(detailedResources) < Len(resources)

(***************************************************************************)
(* Vocabulary of the properties of the directive loop.                     *)
(***************************************************************************)
\* the chain has come to writeConfigurationFiles
WritePhase ==
    /\ pc \in {"write", "rejected", "done"}
    /\ thrown = Undefined \/ thrown[1] \in DirectiveErrors

\* the loop of writeConfigurationFiles has passed position k
Processed(k) == WritePhase /\ i > k

\* the number of operations a directive issues when it does not throw:
\* the file; the temporary schema and the operation synthesizer; the
\* temporary schema, the operation synthesizer and the code generator
OperationCount(fileDetails) ==
    CASE ToLowerCase(fileDetails.type) = "graphql" -> 2
      [] ToLowerCase(fileDetails.type) = "appsync" -> 3
      [] OTHER -> 1

RECURSIVE OperationsBefore(_)
\* the number of operations the directives before position k issue
OperationsBefore(k) ==
    IF k <= 1 THEN 0
    ELSE OperationsBefore(k - 1) + OperationCount(config[k - 1])

\* the operations issued for the directive at position k, once passed
Issued(k) ==
    SubSeq(fsOps, OperationsBefore(k) + 1,
           OperationsBefore(k) + OperationCount(config[k]))

\* the directive writes a script module
IsScript(fileDetails) ==
    IsConfiguration(fileDetails)
        /\ ToLowerCase(fileDetails.type) \in {"javascript", "typescript"}

\* a script module without the comment line that carries the timestamp
WithoutHeader(op) ==
    [op EXCEPT !.contents = [key \in DOMAIN op.contents \ {"header"} |->
                                op.contents[key]]]

\* the output of the directive at position k apart from the timestamp line
Output(k) ==
    IF IsScript(config[k])
    THEN [p \in DOMAIN Issued(k) |-> WithoutHeader(Issued(k)[p])]
    ELSE Issued(k)

FirstPassOperations ==
    {"getGraphqlApi", "getIntrospectionSchema", "describeIdentityPool",
     "describeUserPool"}

\* an operation with the id of the resource it is asked about
Asked(operation, id) == [operation |-> operation, id |-> id]

\* what a request of the log asks, and about which resource
AskedBy(request) ==
    Asked(request.operation,
          CASE request.operation \in {"getGraphqlApi", "getIntrospectionSchema"} ->
                   request.parameters.apiId
            [] request.operation = "describeIdentityPool" ->
                   request.parameters.IdentityPoolId
            [] request.operation = "describeUserPool" ->
                   request.parameters.UserPoolId
            [] OTHER -> request.parameters.ClientId)

\* the requests of the log for the operations ops, in the order issued
AskedOf(ops) ==
    LET asks == Filter(requests, { e \in Range(requests) : e.operation \in ops })
    IN  [p \in DOMAIN asks |-> AskedBy(asks[p])]

RECURSIVE FirstPassInOrder(_)
\* what the first loop is to ask for a list of summaries, in their order;
\* a GraphQL API is asked about by the second part of its physical id
FirstPassInOrder(summaries) ==
    IF summaries = <<>> THEN <<>>
    ELSE LET r == summaries[1]
             id == r.PhysicalResourceId
         IN  (CASE r.ResourceType = GraphQLApiType ->
                       << Asked("getGraphqlApi", SplitAt(id, "/", 1)),
                          Asked("getIntrospectionSchema", SplitAt(id, "/", 1)) >>
                [] r.ResourceType = IdentityPoolType ->
                       << Asked("describeIdentityPool", id) >>
                [] r.ResourceType = UserPoolType -> << Asked("describeUserPool", id) >>
                [] OTHER -> <<>>)
             \o FirstPassInOrder(Tail(summaries))

\* what the second loop is to ask, in the order of the enumeration
SecondPassInOrder ==
    LET clients == Filter(resources,
                          { e \in Range(resources) : e.ResourceType = ClientType })
    IN  [p \in DOMAIN clients |->
            Asked("describeUserPoolClient", clients[p].PhysicalResourceId)]

IsPrefix(s, t) == Len(s) <= Len(t) /\ s = SubSeq(t, 1, Len(s))

(***************************************************************************)
(* C23.  In the log of requests no first-pass request (getGraphqlApi,      *)
(* getIntrospectionSchema, describeIdentityPool, describeUserPool) comes   *)
(* after a describeUserPoolClient request, and when a client request is    *)
(* there every first-pass request of the enumeration is there, resolved;   *)
(* a request is issued only when every request before it has resolved;     *)
(* the requests of each pass follow the order of the enumeration; and in   *)
(* the list returned no record of another type comes after a client        *)
(* record.                                                                 *)
(***************************************************************************)
C23_TwoPassesInOrder ==
    /\ \A p, q \in 1..Len(requests) :
          (p < q /\ requests[p].operation = "describeUserPoolClient")
              => requests[q].operation = "describeUserPoolClient"
    /\ AskedOf({"describeUserPoolClient"}) # <<>>
          => AskedOf(FirstPassOperations) = FirstPassInOrder(resources)
    /\ \A p \in 1..(Len(requests) - 1) : requests[p].outcome = "resolved"
    /\ IsPrefix(AskedOf(FirstPassOperations), FirstPassInOrder(resources))
    /\ IsPrefix(AskedOf({"describeUserPoolClient"}), SecondPassInOrder)
    /\ pc = "write"
          => /\ AskedOf(FirstPassOperations) = FirstPassInOrder(resources)
             /\ AskedOf({"describeUserPoolClient"}) = SecondPassInOrder
             /\ \A p, q \in 1..Len(detailedResources) :
                   (p < q /\ detailedResources[p].ResourceType = ClientType)
                       => detailedResources[q].ResourceType = ClientType

\* the enumeration lists a client before its user pool and a GraphQL API;
\* the client was asked about last and its record is the last of the list
C23_Witness ==
    /\ pc = "write"
    /\ resources # <<>>
    /\ resources[1].ResourceType = ClientType
    /\ \E p \in 2..Len(resources) : resources[p].ResourceType = GraphQLApiType
    /\ Len(AskedOf(FirstPassOperations)) >= 3
    /\ requests[Len(requests)].operation = "describeUserPoolClient"
    /\ detailedResources[Len(detailedResources)].ResourceType = ClientType
    /\ detailedResources[1].ResourceType # ClientType

(***************************************************************************)
(* C24.  The operations issued are those of the directives the loop has    *)
(* passed, in list order, each directive's operations together and ending  *)
(* with the one that produces its file, and none for the position the loop *)
(* is at or a later one; a turn of the loop issues the operations of the   *)
(* directive at its index and only then moves the index by one; and        *)
(* nothing is issued and no directive fails before the enumeration is      *)
(* complete and every request of both passes of the description has been   *)
(* answered.                                                               *)
(***************************************************************************)
C24_DirectivesInListOrder ==
    /\ [](/\ (fsOps # <<>> \/ thrown[1] \in DirectiveErrors)
                => /\ Enumerated
                   /\ WritePhase
                   /\ AskedOf(FirstPassOperations) = FirstPassInOrder(resources)
                   /\ AskedOf({"describeUserPoolClient"}) = SecondPassInOrder
                   /\ \A p \in 1..Len(requests) : requests[p].outcome = "resolved"
          /\ WritePhase
                => /\ \A k \in 1..(i - 1) : k <= Len(config) /\ ~Malformed(config[k])
                   /\ Len(fsOps) = OperationsBefore(i)
                   /\ \A k \in 1..(i - 1) :
                         Issued(k)[OperationCount(config[k])].filename
                             = config[k].filename)
    /\ [][fsOps' # fsOps
            => /\ pc = "write" /\ pc' = "write"
               /\ i <= Len(config)
               /\ ~Malformed(config[i])
               /\ i' = i + 1
               /\ SubSeq(fsOps', 1, Len(fsOps)) = fsOps
               /\ Len(fsOps') = Len(fsOps) + OperationCount(config[i])
               /\ fsOps'[Len(fsOps')].filename = config[i].filename]_vars

\* two directives with different files were processed after an enumeration
\* of several resources; the file of the first was issued first
C24_Witness ==
    /\ pc = "write"
    /\ i = 3
    /\ Len(config) = 2
    /\ config[1].filename # config[2].filename
    /\ OperationCount(config[1]) = 3
    /\ Len(fsOps) = 4
    /\ fsOps[3].filename = config[1].filename
    /\ fsOps[4].filename = config[2].filename
    /\ Len(requests) >= 4

(***************************************************************************)
(* C25.  As claimed: when the promise process() returns has resolved,      *)
(* every fs.writeFile issued has had its callback run, the contents on     *)
(* disk or the error logged.  writeConfigurationFile calls fs.writeFile    *)
(* and returns; nothing waits for the callback, and the chain resolves as  *)
(* soon as the loop over the directives has ended.                         *)
(***************************************************************************)
C25_NoWritePendingAtResolution ==
    promise = "resolved"
        => \A k \in 1..Len(fsOps) : fsOps[k].op = "writeFile" => k \in fsDone

(***************************************************************************)
(* Vocabulary of the comparison of the two synthesizers.                   *)
(***************************************************************************)
\* what a native configuration resolves
NativeResolves(json) ==
    [userPool |->
         IF "CognitoUserPool" \in DOMAIN json
         THEN <<json.CognitoUserPool.Default.PoolId,
                json.CognitoUserPool.Default.AppClientId>>
         ELSE Undefined,
     identityPool |->
         IF "CredentialsProvider" \in DOMAIN json
         THEN json.CredentialsProvider.CognitoIdentity.Default.PoolId
         ELSE Undefined,
     graphql |->
         IF "AppSync" \in DOMAIN json
         THEN <<json.AppSync.Default.ApiUrl, json.AppSync.Default.Region,
                json.AppSync.Default.AuthMode>>
         ELSE Undefined,
     bucket |->
         IF "S3TransferUtility" \in DOMAIN json
         THEN json.S3TransferUtility.Default.Bucket
         ELSE Undefined,
     restApis |->
         IF "APIGateway" \in DOMAIN json
         THEN { <<name, json.APIGateway[name].Endpoint, json.APIGateway[name].Region>> :
                    name \in DOMAIN json.APIGateway }
         ELSE {},
     restApiCount |->
         IF "APIGateway" \in DOMAIN json
         THEN Cardinality(DOMAIN json.APIGateway)
         ELSE 0]

\* what a script configuration resolves
ScriptResolves(awsmobile) ==
    [userPool |->
         IF "aws_user_pools_id" \in DOMAIN awsmobile
         THEN <<awsmobile.aws_user_pools_id, awsmobile.aws_user_pools_web_client_id>>
         ELSE Undefined,
     identityPool |->
         IF "aws_cognito_identity_pool_id" \in DOMAIN awsmobile
         THEN awsmobile.aws_cognito_identity_pool_id
         ELSE Undefined,
     graphql |->
         IF "aws_appsync_graphqlEndpoint" \in DOMAIN awsmobile
         THEN <<awsmobile.aws_appsync_graphqlEndpoint, awsmobile.aws_appsync_region,
                awsmobile.aws_appsync_authenticationType>>
         ELSE Undefined,
     bucket |->
         IF "aws_user_files_s3_bucket" \in DOMAIN awsmobile
         THEN awsmobile.aws_user_files_s3_bucket
         ELSE Undefined,
     restApis |->
         IF "aws_cloud_logic_custom" \in DOMAIN awsmobile
         THEN { <<api.name, api.endpoint, api.region>> :
                    api \in Range(awsmobile.aws_cloud_logic_custom) }
         ELSE {},
     restApiCount |->
         IF "aws_cloud_logic_custom" \in DOMAIN awsmobile
         THEN Len(awsmobile.aws_cloud_logic_custom)
         ELSE 0]

\* the REST API records of the list returned by describeStackResources
RestApiRecords ==
    { p \in 1..Len(detailedResources) :
        detailedResources[p].ResourceType = RestApiType }

(***************************************************************************)
(* C26.  As claimed: a native file written resolves what the script        *)
(* synthesizer resolves from the same records and the same directive, and  *)
(* a script file written what the native synthesizer resolves: the same    *)
(* user pool and app client, identity pool, GraphQL endpoint, region and   *)
(* auth type, bucket, and REST APIs, one entry for each REST API record;   *)
(* and the one throws where the other does.  The native synthesizer keys   *)
(* the REST APIs by logical id: of two REST APIs with the same logical id, *)
(* one in a nested stack, it keeps one entry, the script synthesizer two.  *)
(***************************************************************************)
C26_SynthesizersResolveTheSame ==
    \A k \in 1..Len(config) :
        IsConfiguration(config[k]) =>
            /\ pc = "write"
                  => \A now \in Timestamps :
                        WriteNativeConfiguration(detailedResources, config[k]).thrown
                            = WriteJavaScriptConfiguration(detailedResources, config[k],
                                                           now).thrown
            /\ \A op \in WritesFor(config[k]) :
                  LET native == IF IsNative(config[k]) THEN op.contents.json
                                ELSE NativeConfiguration(detailedResources, config[k])
                      script == IF IsNative(config[k])
                                THEN JavaScriptConfiguration(detailedResources, config[k])
                                ELSE op.contents.awsmobile
                  IN  /\ NativeResolves(native) = ScriptResolves(script)
                      /\ NativeResolves(native).restApiCount
                             = Cardinality(RestApiRecords)

(***************************************************************************)
(* The older variant of the plugin, src/unnamed/part_000.  It lists the    *)
(* stack of the service alone, describes no identity pool and no REST API, *)
(* knows no typescript directive, and builds the script module as an array *)
(* of lines.  The second loop of describeStackResources, the schema        *)
(* writers and writeConfigurationFile are, statement for statement, those  *)
(* of src/index.js, and are taken from the model above.                    *)
(***************************************************************************)
Part000Items ==
    { pools \o idps \o others :
        pools  \in { <<>>, <<Cl1, Up1, Up2, Cl2>>, <<Up1, Cl1, ClLost>> },
        idps   \in { <<>>, <<Idp2, Idp1>> },
        others \in { <<>>, <<Api1, BktUploads, Fn1>> } }

Part000Worlds ==
    { (RootStack :> Chunk(items, size)) : items \in Part000Items,
                                          size \in 1..MaxPageSize }

Part000Directives ==
    { [type |-> type, filename |-> <<"out", ".", type>>]
          @@ Optional("appClient", appClient) :
        type      \in { "native", "javascript" },
        appClient \in { "-", "WebClient", "AdminClient", "NoSuchClient" } }
    \cup
    { [type |-> "schema.json", filename |-> <<"schema", ".", "json">>],
      [type |-> "graphql", filename |-> <<"operations", ".", "graphql">>],
      [type |-> "appsync", filename |-> <<"API", ".", "swift">>],
      [type |-> "typescript", filename |-> <<"aws-exports", ".", "ts">>],
      [type |-> "native"] }

\* process() has called listStackResources(this.stackName)
InitPart000 ==
    /\ listing \in Part000Worlds
    /\ config \in { <<d>> : d \in Part000Directives }
    /\ pc = "list"
    /\ frames = <<NewFrame(RootStack)>>
    /\ resources = <<>>
    /\ pass = 1
    /\ i = 1
    /\ detailedResources = <<>>
    /\ requests = <<>>
    /\ fsOps = <<>>
    /\ fsDone = {}
    /\ errors = <<>>
    /\ thrown = Undefined
    /\ promise = "pending"

\* one turn of the do-while loop of listStackResources
ListPagePart000 ==
    /\ pc = "list"
    /\ Top.phase = "paging"
    /\ LET result    == ListResponse(Top.request)
           morePages == result.NextToken # NoToken
       IN  /\ requests' = Append(requests, Resolved(
                  Request("CloudFormation", "listStackResources", Top.request)))
           /\ frames' = SetTop(
                  [Top EXCEPT !.resources = @ \o result.StackResourceSummaries,
                              !.request = [StackName |-> RootStack,
                                           NextToken |-> result.NextToken],
                              !.phase = IF morePages THEN "paging" ELSE "return"])
    /\ UNCHANGED <<listing, config, pc, resources, pass, i, detailedResources,
                   fsOps, fsDone, errors, thrown, promise>>

\* one turn of the do-while loop: the request fails
ListPageFailsPart000 ==
    /\ pc = "list"
    /\ Top.phase = "paging"
    /\ requests' = Append(requests, Rejected(
           Request("CloudFormation", "listStackResources", Top.request)))
    /\ Reject(<<"listStackResources", "failed">>)
    /\ UNCHANGED <<listing, config, frames, resources, pass, i, detailedResources,
                   fsOps, fsDone, errors, promise>>

\* return resources, to process(): nested stacks are not listed
ListReturnPart000 ==
    /\ pc = "list"
    /\ Top.phase = "return"
    /\ resources' = Top.resources
    /\ pc' = "describe"
    /\ frames' = <<>>
    /\ UNCHANGED <<listing, config, pass, i, detailedResources, requests,
                   fsOps, fsDone, errors, thrown, promise>>

\* the requests the first loop awaits for a resource, in order
FirstPassRequestsPart000(resource) ==
    CASE resource.ResourceType = GraphQLApiType ->
           << Request("AppSync", "getGraphqlApi", [apiId |-> AppSyncId(resource)]),
              Request("AppSync", "getIntrospectionSchema",
                      [apiId |-> AppSyncId(resource), format |-> "JSON"]) >>
      [] resource.ResourceType = UserPoolType ->
           << Request("CognitoIdentityServiceProvider", "describeUserPool",
                      [UserPoolId |-> resource.PhysicalResourceId]) >>
      [] OTHER -> <<>>

\* what the first loop pushes for a resource whose requests succeeded: an
\* identity pool and a bucket as they are listed
FirstPassRecordsPart000(resource, schemaText) ==
    CASE resource.ResourceType = GraphQLApiType ->
           << resource @@ [metadata |-> GraphqlApiResponse(AppSyncId(resource)),
                           schema   |-> JSONParse(schemaText)] >>
      [] resource.ResourceType = IdentityPoolType -> << resource >>
      [] resource.ResourceType = UserPoolType ->
           << resource @@ [metadata |-> UserPoolResponse(resource.PhysicalResourceId)] >>
      [] resource.ResourceType = BucketType -> << resource >>
      [] OTHER -> <<>>

\* the log of a turn whose requests were all answered
FirstPassLogPart000(resource, schemaText) ==
    IF resource.ResourceType = GraphQLApiType
    THEN << Resolved(FirstPassRequestsPart000(resource)[1]),
            Resolved(FirstPassRequestsPart000(resource)[2]) @@ [schema |-> schemaText] >>
    ELSE AllResolved(FirstPassRequestsPart000(resource))

\* one turn of the first loop, every request of it answered
DescribeResourcePart000 ==
    /\ pc = "describe"
    /\ pass = 1
    /\ i <= Len(resources)
    /\ \E schemaText \in SchemaPayloads(AppSyncId(resources[i])) :
          /\ resources[i].ResourceType = GraphQLApiType
                => JSONParse(schemaText) # SyntaxError
          /\ detailedResources' =
                 detailedResources \o FirstPassRecordsPart000(resources[i], schemaText)
          /\ requests' = requests \o FirstPassLogPart000(resources[i], schemaText)
    /\ i' = i + 1
    /\ UNCHANGED <<listing, config, pc, frames, resources, pass, fsOps, fsDone,
                   errors, thrown, promise>>

\* one turn of the first loop in which the n-th request fails
DescribeRequestFailsPart000 ==
    /\ pc = "describe"
    /\ pass = 1
    /\ i <= Len(resources)
    /\ \E n \in 1..Len(FirstPassRequestsPart000(resources[i])) :
          /\ requests' = requests
                 \o AllResolved(SubSeq(FirstPassRequestsPart000(resources[i]), 1, n - 1))
                 \o <<Rejected(FirstPassRequestsPart000(resources[i])[n])>>
          /\ Reject(<<FirstPassRequestsPart000(resources[i])[n].operation, "failed">>)
    /\ UNCHANGED <<listing, config, frames, resources, pass, i, detailedResources,
                   fsOps, fsDone, errors, promise>>

\* one turn of the first loop in which JSON.parse throws on the schema
DescribeSchemaFailsPart000 ==
    /\ pc = "describe"
    /\ pass = 1
    /\ i <= Len(resources)
    /\ resources[i].ResourceType = GraphQLApiType
    /\ \E schemaText \in SchemaPayloads(AppSyncId(resources[i])) :
          /\ JSONParse(schemaText) = SyntaxError
          /\ requests' = requests \o FirstPassLogPart000(resources[i], schemaText)
    /\ Reject(<<"JSON.parse", "failed">>)
    /\ UNCHANGED <<listing, config, frames, resources, pass, i, detailedResources,
                   fsOps, fsDone, errors, promise>>

\* the config object of writeNativeConfiguration; the caller has checked
\* that it does not throw
NativeConfigurationPart000(records, fileDetails) ==
    LET base == [UserAgent |-> UserAgent, Version |-> "1.0"]
        appClient == AppClient(records, fileDetails)
        client == appClient.metadata.UserPoolClient
        userPool ==
            IF HasOwnProperty(fileDetails, "appClient")
            THEN "CognitoUserPool" :> [Default |->
                     [PoolId |-> client.UserPoolId,
                      Region |-> SplitAt(client.UserPoolId, "_", 0),
                      AppClientId |-> client.ClientId]
                     @@ (IF HasOwnProperty(client, "AppClientSecret")
                         THEN [AppClientSecret |->
                                  IF HasOwnProperty(client, "ClientSecret")
                                  THEN client.ClientSecret ELSE Undefined]
                         ELSE Empty)]
            ELSE Empty
        IsPool(r) == r.ResourceType = IdentityPoolType
        identityPool == Find(records, { e \in Range(records) : IsPool(e) })
        credentials ==
            IF IsDefined(identityPool)
            THEN "CredentialsProvider" :> [CognitoIdentity |-> [Default |->
                     [Region |-> SplitAt(identityPool.PhysicalResourceId, ":", 0),
                      PoolId |-> identityPool.PhysicalResourceId]]]
            ELSE Empty
        appSync == AppSync(records)
        api ==
            IF IsDefined(appSync)
            THEN "AppSync" :> [Default |->
                     [ApiUrl |-> appSync.metadata.graphqlApi.uris.GRAPHQL,
                      Region |-> SplitAt(appSync.metadata.graphqlApi.arn, ":", 3),
                      AuthType |-> appSync.metadata.graphqlApi.authenticationType]]
            ELSE Empty
        userFiles == UserFiles(records, fileDetails)
        storage ==
            IF IsDefined(userFiles)
            THEN "S3TransferUtility" :> [Default |->
                     [Bucket |-> userFiles.PhysicalResourceId,
                      Region |-> ProviderRegion]]
            ELSE Empty
    IN  base @@ userPool @@ credentials @@ api @@ storage

\* writeNativeConfiguration
WriteNativeConfigurationPart000(records, fileDetails) ==
    IF InvalidAppClient(records, fileDetails)
    THEN Throws(<<"Invalid appClient specified", fileDetails.appClient>>, <<>>)
    ELSE Returns(<< WriteFile(fileDetails.filename,
                       [json |-> NativeConfigurationPart000(records, fileDetails)]) >>)

\* a line of the script module that is text only
Text(words) == <<words>>

\* the line `    "key": "value",` of the script module
Line(key, value) == <<"    ", key, ": ", value, ",">>

\* Array.prototype.indexOf: the index, from 0, of the first element that is
\* the searched one, -1 if none is
IndexOf(array, element) ==
    IF \E p \in 1..Len(array) : array[p] = element
    THEN (CHOOSE p \in 1..Len(array) :
             /\ array[p] = element
             /\ \A q \in 1..(p - 1) : array[q] # element) - 1
    ELSE -1

\* the array of lines of writeJavaScriptConfiguration; the caller has
\* checked that it does not throw
JavaScriptLinesPart000(records, fileDetails, now) ==
    LET base == << Text("// WARNING: DO NOT EDIT.  This file is automatically generated"),
                   <<"// Written by", UserAgent, "on", now>>,
                   Text(""),
                   Text("const awsmobile = {"),
                   Line("aws_project_region", ProviderRegion) >>
        appClient == AppClient(records, fileDetails)
        client == appClient.metadata.UserPoolClient
        userPool ==
            IF HasOwnProperty(fileDetails, "appClient")
            THEN << Line("aws_cognito_region", SplitAt(client.UserPoolId, "_", 0)),
                    Line("aws_user_pools_id", client.UserPoolId),
                    Line("aws_user_pools_web_client_id", client.ClientId) >>
                 \o (IF HasOwnProperty(client, "AppClientSecret")
                     THEN << Line("aws_user_pools_web_client_secret",
                                  IF HasOwnProperty(client, "ClientSecret")
                                  THEN client.ClientSecret ELSE Undefined) >>
                     ELSE <<>>)
            ELSE <<>>
        IsPool(r) == r.ResourceType = IdentityPoolType
        identityPool == Find(records, { e \in Range(records) : IsPool(e) })
        \* the array is searched for an element that is the quoted key alone
        credentials ==
            IF IsDefined(identityPool)
            THEN (IF IndexOf(base \o userPool, Text("\"aws_cognito_region\"")) = -1
                  THEN << Line("aws_cognito_region",
                               SplitAt(identityPool.PhysicalResourceId, ":", 0)) >>
                  ELSE <<>>)
                 \o << Line("aws_cognito_identity_pool_id",
                            identityPool.PhysicalResourceId) >>
            ELSE <<>>
        appSync == AppSync(records)
        api ==
            IF IsDefined(appSync)
            THEN << Line("aws_appsync_graphqlEndpoint",
                         appSync.metadata.graphqlApi.uris.GRAPHQL),
                    Line("aws_appsync_region",
                         SplitAt(appSync.metadata.graphqlApi.arn, ":", 3)),
                    Line("aws_appsync_authenticationType",
                         appSync.metadata.graphqlApi.authenticationType) >>
            ELSE <<>>
        userFiles == UserFiles(records, fileDetails)
        storage ==
            IF IsDefined(userFiles)
            THEN << Line("aws_user_files_s3_bucket", userFiles.PhysicalResourceId),
                    Line("aws_user_files_s3_bucket_region", ProviderRegion) >>
            ELSE <<>>
    IN  base \o userPool \o credentials \o api \o storage
             \o << Text("};"), Text(""), Text("export default awsmobile;"), Text("") >>

\* writeJavaScriptConfiguration
WriteJavaScriptConfigurationPart000(records, fileDetails, now) ==
    IF InvalidAppClient(records, fileDetails)
    THEN Throws(<<"Invalid appClient specified", fileDetails.appClient>>, <<>>)
    ELSE Returns(<< WriteFile(fileDetails.filename,
                       [lines |-> JavaScriptLinesPart000(records, fileDetails, now)]) >>)

\* the body of the for loop of writeConfigurationFiles
ProcessDirectivePart000(records, fileDetails, now) ==
    IF HasOwnProperty(fileDetails, "type") /\ HasOwnProperty(fileDetails, "filename")
    THEN LET type == ToLowerCase(fileDetails.type)
         IN  CASE type = "native" -> WriteNativeConfigurationPart000(records, fileDetails)
               [] type = "javascript" ->
                      WriteJavaScriptConfigurationPart000(records, fileDetails, now)
               [] type = "schema.json" ->
                      WriteSchemaJSONConfiguration(records, fileDetails)
               [] type = "graphql" -> WriteGraphQLOperations(records, fileDetails)
               [] type = "appsync" -> WriteAppSyncAPI(records, fileDetails)
               [] OTHER ->
                      Throws(<<"Invalid Amplify configuration directive">>,
                             << <<"Invalid Amplify configuration directive">> >>)
    ELSE Throws(<<"Invalid Amplify configuration directive">>,
                << <<"Invalid Amplify configuration directive">> >>)

\* one turn of the loop of writeConfigurationFiles that returns
WriteDirectivePart000 ==
    /\ pc = "write"
    /\ i <= Len(config)
    /\ \E now \in Timestamps :
          LET outcome == ProcessDirectivePart000(detailedResources, config[i], now)
          IN  /\ outcome.thrown = Undefined
              /\ fsOps' = fsOps \o outcome.ops
    /\ i' = i + 1
    /\ UNCHANGED <<listing, config, pc, frames, resources, pass, detailedResources,
                   requests, fsDone, errors, thrown, promise>>

\* one turn of the loop of writeConfigurationFiles that throws
WriteDirectiveThrowsPart000 ==
    /\ pc = "write"
    /\ i <= Len(config)
    /\ \E now \in Timestamps :
          LET outcome == ProcessDirectivePart000(detailedResources, config[i], now)
          IN  /\ outcome.thrown # Undefined
              /\ errors' = errors \o outcome.logged
              /\ Reject(outcome.thrown)
    /\ UNCHANGED <<listing, config, frames, resources, pass, i, detailedResources,
                   requests, fsOps, fsDone, promise>>

\* writeConfigurationFiles returns; process() has returned no promise
WriteReturnPart000 ==
    /\ pc = "write"
    /\ i > Len(config)
    /\ pc' = "done"
    /\ UNCHANGED <<listing, config, frames, resources, pass, i, detailedResources,
                   requests, fsOps, fsDone, errors, thrown, promise>>

\* .catch(error => this.log('error', ...))
CatchPart000 ==
    /\ pc = "rejected"
    /\ errors' = Append(errors, <<"Cannot load resources", thrown>>)
    /\ pc' = "done"
    /\ UNCHANGED <<listing, config, frames, resources, pass, i, detailedResources,
                   requests, fsOps, fsDone, thrown, promise>>

NextPart000 ==
    \/ ListPagePart000
    \/ ListPageFailsPart000
    \/ ListReturnPart000
    \/ DescribeResourcePart000
    \/ DescribeRequestFailsPart000
    \/ DescribeSchemaFailsPart000
    \/ DescribeSecondPass
    \/ DescribeClient
    \/ DescribeClientFails
    \/ DescribeClientThrows
    \/ DescribeReturn
    \/ WriteDirectivePart000
    \/ WriteDirectiveThrowsPart000
    \/ WriteReturnPart000
    \/ WriteFileCallback
    \/ CatchPart000

SpecPart000 == InitPart000 /\ [][NextPart000]_vars

(***************************************************************************)
(* Vocabulary of the properties of the app client in the output.           *)
(***************************************************************************)
\* the described app client the directive names, NotFound if none
NamedClient(fileDetails) ==
    LET Named(r) == r.ResourceType = ClientType
                    /\ r.LogicalResourceId = fileDetails.appClient
    IN  IF HasOwnProperty(fileDetails, "appClient")
        THEN Find(detailedResources, { e \in Range(detailedResources) : Named(e) })
        ELSE NotFound

\* the values the lines of a script module give to key, in order
ValuesOf(lines, key) ==
    LET given == Filter(lines, { l \in Range(lines) : Len(l) = 5 /\ l[2] = key })
    IN  [p \in DOMAIN given |-> given[p][4]]

\* the values a written configuration gives to the client secret: those of
\* AppClientSecret in a native file, of aws_user_pools_web_client_secret in
\* a script module, be it an object or an array of lines
SecretsWritten(contents) ==
    IF HasOwnProperty(contents, "json")
    THEN IF HasOwnProperty(contents.json, "CognitoUserPool")
            /\ HasOwnProperty(contents.json.CognitoUserPool.Default, "AppClientSecret")
         THEN << contents.json.CognitoUserPool.Default.AppClientSecret >>
         ELSE <<>>
    ELSE IF HasOwnProperty(contents, "awsmobile")
    THEN IF HasOwnProperty(contents.awsmobile, "aws_user_pools_web_client_secret")
         THEN << contents.awsmobile.aws_user_pools_web_client_secret >>
         ELSE <<>>
    ELSE ValuesOf(contents.lines, "aws_user_pools_web_client_secret")

(***************************************************************************)
(* C27.  As claimed: a native, javascript or typescript file written for a *)
(* directive that names a described app client carries the client secret   *)
(* exactly when metadata.UserPoolClient of that client has a ClientSecret,  *)
(* and then that value.  The older variant tests for a property called     *)
(* AppClientSecret, which the description of a client never has: it        *)
(* writes no secret for a client that has one.                             *)
(***************************************************************************)
C27_SecretWrittenIffDescribed ==
    \A k \in 1..Len(config) :
        (IsConfiguration(config[k]) /\ IsDefined(NamedClient(config[k])))
            => \A op \in WritesFor(config[k]) :
                  LET client == NamedClient(config[k]).metadata.UserPoolClient
                  IN  SecretsWritten(op.contents) =
                          IF HasOwnProperty(client, "ClientSecret")
                          THEN << client.ClientSecret >>
                          ELSE <<>>

(***************************************************************************)
(* Vocabulary of the properties of aws_cognito_region.                     *)
(***************************************************************************)
\* the values a written script module gives to key, in the order written:
\* one at most for an object, one for each line with the key for an array
\* of lines
ScriptValuesOf(contents, key) ==
    IF HasOwnProperty(contents, "awsmobile")
    THEN IF HasOwnProperty(contents.awsmobile, key)
         THEN << contents.awsmobile[key] >>
         ELSE <<>>
    ELSE ValuesOf(contents.lines, key)

\* the text of an id before its first separator
RegionPrefix(id, separator) == SplitAt(id, separator, 0)

(***************************************************************************)
(* C28.  As claimed: a script module written gives aws_cognito_region at   *)
(* most once; for a directive that names a described app client its value  *)
(* is the text before '_' of the UserPoolId of that client; for a          *)
(* directive that names no app client it is, when an identity pool is      *)
(* written, the text before ':' of the id of that pool.  The older variant *)
(* searches its array of lines for an element that is the quoted key       *)
(* alone, finds none, and writes the key a second time, with the region of *)
(* the identity pool.                                                      *)
(***************************************************************************)
C28_CognitoRegionOnce ==
    \A k \in 1..Len(config) :
        IsScript(config[k]) =>
            \A op \in WritesFor(config[k]) :
                LET regions == ScriptValuesOf(op.contents, "aws_cognito_region")
                    pools == ScriptValuesOf(op.contents, "aws_cognito_identity_pool_id")
                IN  /\ Len(regions) <= 1
                    /\ IsDefined(NamedClient(config[k]))
                          => regions = << RegionPrefix(
                                 NamedClient(config[k]).metadata.UserPoolClient.UserPoolId,
                                 "_") >>
                    /\ ~HasOwnProperty(config[k], "appClient")
                          => /\ Len(regions) = Len(pools)
                             /\ pools # <<>> => regions = << RegionPrefix(pools[1], ":") >>

(***************************************************************************)
(* The termination specification: the worlds of the pipeline              *)
(* specification and a chain of nested stacks three deep, at most one      *)
(* directive, and every continuation whose request has settled run in the  *)
(* end, as the event loop of Node.js runs it.                              *)
(***************************************************************************)
StackC == <<"C">>

\* svc-dev nests A, A nests B, B nests C
DeepWorldItems ==
    (RootStack :> <<StackEntry("A"), Up1>>) @@ (StackA :> <<Cl1, StackEntry("B")>>)
        @@ (StackB :> <<StackEntry("C"), BktUploads>>) @@ (StackC :> <<Idp1, Api1>>)

TerminationWorlds ==
    Worlds \cup { Paged(DeepWorldItems, size) : size \in 1..MaxPageSize }

InitTermination ==
    /\ listing \in TerminationWorlds
    /\ config \in SeqsUpTo(Directives, 1)
    /\ pc = "list"
    /\ frames = <<NewFrame(RootStack)>>
    /\ resources = <<>>
    /\ pass = 1
    /\ i = 1
    /\ detailedResources = <<>>
    /\ requests = <<>>
    /\ fsOps = <<>>
    /\ fsDone = {}
    /\ errors = <<>>
    /\ thrown = Undefined
    /\ promise = "pending"

SpecTermination == InitTermination /\ [][Next]_vars /\ WF_vars(Next)

(***************************************************************************)
(* C29.  Every run of listStackResources on a finite tree of stacks comes  *)
(* to its end: after finitely many listing requests the call on the root   *)
(* stack has returned its list, or a listing request has failed and the    *)
(* call has thrown; and from then on no listing request is issued.         *)
(***************************************************************************)
C29_ListingTerminates ==
    /\ <>(Enumerated \/ ListingFailed)
    /\ [][(Enumerated \/ ListingFailed) => ListRequests' = ListRequests]_vars

\* the chain of stacks three deep was listed: the stacks B and C more than
\* once, from the entries appended to the lists being iterated
C29_Witness ==
    /\ Enumerated
    /\ StackC \in DOMAIN listing
    /\ Len(ListRequests) >= 8
    /\ Len(resources) > 8
    /\ thrown = Undefined

=============================================================================
